---- MODULE Spec2Model ----
(***************************************************************************)
(* synesthesia.space: the session controller (pages/Index), the experience *)
(* state machine (components/StateManager), the interaction tracker        *)
(* (components/ReactiveOverlay) and the peak detector (auto-capture).      *)
(*                                                                         *)
(* Numbers.  Control values are fixed point, 1.0 = Unit (hundredths).      *)
(* Times are milliseconds.  Date.now() - t is kept as an age that time     *)
(* steps increase; an age is capped one step above the largest threshold   *)
(* it is compared with, since the code only compares it with that.         *)
(*                                                                         *)
(* React.  A handler, the re-render its setState calls cause and the       *)
(* effects that re-run because a dependency changed are one step.  A       *)
(* setState that leaves the value unchanged causes no re-render.           *)
(***************************************************************************)
EXTENDS Integers, Sequences, FiniteSets, TLC

VARIABLES
    \* pages/Index state
    interactionFrequency, motionIntensity, contextState,
    audioEnabled, audioHue, audioAmplitude,
    autoCaptureEnabled, timeSinceLastCapture, sensitivityMode,
    recentPeaks,
    \* timers owned by pages/Index
    decayTimers, pollTimer,
    \* components/StateManager state and timers
    timeSinceInteraction, introComplete, introTimer, checkTimer,
    \* components/ReactiveOverlay: the motionIntensity its handlers closed over, its interval
    renderedMotion, motionTimer,
    \* observer of that interval (not program state): time since its callback last ran
    sinceDecay,
    \* observers (not program state)
    lastEvent, sessionAge, sinceEvent, sincePoll, sinceFire, scoreLog, frameCount, lastGap,
    captureCalls,
    \* lib/ambientSoundscape, drone engine (module state)
    droneContext, droneIsPlaying, droneLayers, subBass, noiseNode, droneStops,
    \* observer of the drone engine (not program state): its last call, start or stop
    lastDroneCall,
    \* lib/audio (sound utilities): whether reflectionPad is set, the teardown
    \* timeouts of stopReflectionPad that are pending
    reflectionPad, padStops,
    \* observer of the pad (not program state): its last call, start or stop
    lastPadCall,
    \* lib/ambientSoundscape, sample-bed engine (module state)
    bedContext, bedIsPlaying, trackLoad, trackBuffers, trackSources,
    currentTrackIndex, startsAwaiting, bedStops, crossfades,
    \* observers of the sound engines (not program state)
    soundEvent, startSources,
    \* lib/audio (sound utilities): whether its audioContext and masterGain exist
    toneContext,
    \* observer of the volume setters (not program state): the last call of one
    \* and the automation call it made on the master gain
    volumeCall,
    \* lib/audioVisualization AudioVisualizer instances, pages/Index visualizerRef,
    \* whether the page is mounted
    visualizers, visualizerRef, mounted,
    \* observers of the visualizers (not program state)
    micEvent, micId, lastToggle,
    \* the pure mapping functions of lib/audioVisualization: the arguments of a
    \* call, which function was called, its result
    mapAmplitude, mapFrequency, mapName, mapOutput,
    \* components/SemanticLayer: the active words, oldest first, each with its id,
    \* the time since its creation and the time since it was clicked
    words,
    \* components/SemanticLayer: the words.length its mousemove listener closed over
    renderedWords,
    \* observers of SemanticLayer (not program state)
    wordsCreated, wordEvent,
    \* supabase/functions/generate-haiku: whether the secret is set, the request
    \* and the response in flight between the panel and the function
    LOVABLE_API_KEY, request, response,
    \* components/HaikuGenerator state and the description of its last toast
    haiku, isLoading, toast,
    \* observers of the haiku function (not program state): calls made to the
    \* gateway, the status of the last one, generations asked for
    upstreamCalls, upstreamStatus, generations

indexVars == <<interactionFrequency, motionIntensity, contextState, audioEnabled,
               audioHue, audioAmplitude, autoCaptureEnabled, timeSinceLastCapture,
               sensitivityMode, recentPeaks, decayTimers, pollTimer>>
managerVars == <<timeSinceInteraction, introComplete, introTimer, checkTimer>>
overlayVars == <<renderedMotion, motionTimer, sinceDecay>>
observerVars == <<lastEvent, sessionAge, sinceEvent, sincePoll, sinceFire, scoreLog,
                  frameCount, lastGap, captureCalls>>
droneVars == <<droneContext, droneIsPlaying, droneLayers, subBass, noiseNode, droneStops,
               lastDroneCall>>
padVars == <<reflectionPad, padStops, lastPadCall>>
bedVars == <<bedContext, bedIsPlaying, trackLoad, trackBuffers, trackSources,
             currentTrackIndex, startsAwaiting, bedStops, crossfades>>
volumeVars == <<toneContext, volumeCall>>
soundVars == <<droneVars, bedVars, soundEvent, startSources, volumeVars, padVars>>
micVars == <<visualizers, visualizerRef, mounted, micEvent, micId, lastToggle>>
mapVars == <<mapAmplitude, mapFrequency, mapName, mapOutput>>
wordVars == <<words, renderedWords, wordsCreated, wordEvent>>
haikuVars == <<LOVABLE_API_KEY, request, response, haiku, isLoading, toast,
               upstreamCalls, upstreamStatus, generations>>
vars == <<indexVars, managerVars, overlayVars, observerVars, soundVars, micVars, mapVars,
          wordVars, haikuVars>>

----
\* Fixed point and helpers

Unit == 10 * 10
NoTimer == 0 - 1

Min(a, b) == IF a < b THEN a ELSE b
Max(a, b) == IF a > b THEN a ELSE b

\* an age after d more milliseconds, capped
Older(age, d, cap) == Min(age + d, cap)
\* a timer after d more milliseconds
Later(timer, d) == IF timer = NoTimer THEN NoTimer ELSE timer - d
Due(timer) == timer = 0
NotOverdue(timer, d) == timer = NoTimer \/ timer >= d

----
\* Program constants

MaxLevel == 10 * Unit          \* Math.min(10, ...)
IntroDelay == 3000
CheckInterval == 1000
IdleThreshold == 60000
DecayDelay == 2000
ImmersiveLevel == 5 * Unit     \* interactionFrequency > 5
ClickStep == Unit              \* prev + 1
DecayStep == Unit \div 2       \* prev - 0.5
AudioGate == 5                 \* amplitude > 0.05, in hundredths
MotionDecayInterval == 100     \* ReactiveOverlay's setInterval

\* Bounds of the model
MaxDecay == 2                  \* pending decay timeouts

ContextStates == {"intro", "active", "immersive", "reflection"}

SensitivityModes == {"subtle", "balanced", "explosive"}

\* caps of the ages
IdleCap == IdleThreshold + DecayDelay + CheckInterval
SessionCap == IntroDelay + CheckInterval

----
\* State of the sound engine modules after they are loaded
InitSound ==
    /\ droneContext = FALSE                \* audioContext = null
    /\ droneIsPlaying = FALSE
    /\ droneLayers = 0                     \* droneLayers.length
    /\ subBass = FALSE                     \* subBass !== null
    /\ noiseNode = FALSE
    /\ droneStops = <<>>                   \* teardown timeouts of stop(), oldest first
    /\ lastDroneCall = "none"
    /\ reflectionPad = FALSE               \* reflectionPad = null
    /\ padStops = 0
    /\ lastPadCall = "none"
    /\ bedContext = FALSE
    /\ bedIsPlaying = FALSE
    /\ trackLoad = "none"                  \* trackLoadPromise: none, loading, done
    /\ trackBuffers = {}                   \* slots whose buffer is loaded
    /\ trackSources = {}                   \* slots whose source is set (and playing)
    /\ currentTrackIndex = 0
    /\ startsAwaiting = 0                  \* start() calls awaiting loadTracks()
    /\ bedStops = <<>>
    /\ crossfades = <<>>                   \* stop timeouts of crossfadeTo, oldest first
    /\ soundEvent = "load"
    /\ startSources = 0
    /\ toneContext = FALSE
    /\ volumeCall = [setter |-> "none", volume |-> 0, method |-> "none", target |-> 0]

MaxVisualizers == 2            \* AudioVisualizer instances constructed in a run

\* an AudioVisualizer after its constructor: stream, audioContext/analyser/
\* dataArray/source (set and cleared together) and animationId are null; frame
\* tells whether a requestAnimationFrame callback is pending, stopped whether
\* stop() has returned
NewVisualizer ==
    [phase |-> "unused", stream |-> FALSE, analyser |-> FALSE, animationId |-> FALSE,
     frame |-> FALSE, stopped |-> FALSE]

\* State of the visualizers after page load
InitMic ==
    /\ visualizers = [i \in 1..MaxVisualizers |-> NewVisualizer]
    /\ visualizerRef = 0                   \* visualizerRef.current = null
    /\ mounted = TRUE
    /\ micEvent = "load"
    /\ micId = 0
    /\ lastToggle = "none"

\* SemanticLayer after its first render: useState<Word[]>([])
NoWords ==
    /\ words = <<>>
    /\ renderedWords = 0
    /\ wordsCreated = 0
    /\ wordEvent = "load"

\* no Response of the haiku function is in flight
NoResponse == [status |-> 0, error |-> "", haiku |-> ""]

\* HaikuGenerator after its first render (useState(null), useState(false)), the
\* function deployed with its secret, nothing asked yet
NoHaiku ==
    /\ LOVABLE_API_KEY = TRUE
    /\ request = "none"
    /\ response = NoResponse
    /\ haiku = ""
    /\ isLoading = FALSE
    /\ toast = ""
    /\ upstreamCalls = 0
    /\ upstreamStatus = 0
    /\ generations = 0

\* no call of a mapping function is under observation
NoMapCall ==
    /\ mapAmplitude = 0
    /\ mapFrequency = 0
    /\ mapName = "none"
    /\ mapOutput = 0

\* State after construction (page load)

\* pages/Index, StateManager and ReactiveOverlay after the first render
InitPage ==
    /\ interactionFrequency = 0
    /\ motionIntensity = 0
    /\ contextState = "intro"
    /\ audioEnabled = FALSE
    /\ audioHue = 0
    /\ audioAmplitude = 0
    /\ autoCaptureEnabled = FALSE
    /\ timeSinceLastCapture = NoTimer      \* lastCaptureTime = 0: no capture yet
    /\ sensitivityMode = "balanced"
    /\ recentPeaks = <<>>
    /\ decayTimers = <<>>
    /\ pollTimer = NoTimer
    /\ timeSinceInteraction = 0            \* useState(Date.now())
    /\ introComplete = FALSE
    /\ introTimer = IntroDelay
    /\ checkTimer = CheckInterval
    /\ renderedMotion = 0
    /\ motionTimer = MotionDecayInterval
    /\ sinceDecay = 0
    /\ lastEvent = "load"
    /\ sessionAge = 0
    /\ sinceEvent = 0
    /\ sincePoll = 0
    /\ sinceFire = NoTimer
    /\ scoreLog = <<>>
    /\ frameCount = 0
    /\ lastGap = NoTimer
    /\ captureCalls = 0

Init ==
    /\ InitSound
    /\ InitMic
    /\ NoMapCall
    /\ NoWords
    /\ NoHaiku
    /\ InitPage

----
\* pages/Index: the interactionFrequency setters

\* the click increment without Math.min
clickIncrementUncapped(prev) == prev + ClickStep

\* setInteractionFrequency(prev => Math.min(10, prev + 1))
clickIncrement(prev) == Min(MaxLevel, prev + ClickStep)
\* setInteractionFrequency(prev => Math.max(0, prev - 0.5))
decayDecrement(prev) == Max(0, prev - DecayStep)
\* if (amplitude > 0.05) setInteractionFrequency(prev => Math.min(10, prev + amplitude * 4))
frameIncrement(prev, amplitude) ==
    IF amplitude > AudioGate THEN Min(MaxLevel, prev + amplitude * 4) ELSE prev

----
\* components/StateManager

\* checkState without the introComplete test
checkStateNoIntroWait(state, frequency, sinceInteraction, complete) ==
    IF sinceInteraction > IdleThreshold /\ state # "reflection" /\ state # "intro"
    THEN "reflection"
    ELSE IF frequency = 0 /\ state = "intro" THEN "active"
    ELSE IF frequency > 0 /\ frequency <= ImmersiveLevel /\ state # "active" THEN "active"
    ELSE IF frequency > ImmersiveLevel /\ state # "immersive" THEN "immersive"
    ELSE state

\* checkState with the immersive boundary at >= 5
checkStateImmersiveAtFive(state, frequency, sinceInteraction, complete) ==
    IF sinceInteraction > IdleThreshold /\ state # "reflection" /\ state # "intro"
    THEN "reflection"
    ELSE IF complete /\ frequency = 0 /\ state = "intro" THEN "active"
    ELSE IF frequency > 0 /\ frequency < ImmersiveLevel /\ state # "active" THEN "active"
    ELSE IF frequency >= ImmersiveLevel /\ state # "immersive" THEN "immersive"
    ELSE state

\* checkState whose idle rule restarts the session instead of entering reflection
checkStateIdleRestarts(state, frequency, sinceInteraction, complete) ==
    IF sinceInteraction > IdleThreshold /\ state # "reflection" /\ state # "intro"
    THEN "intro"
    ELSE IF complete /\ frequency = 0 /\ state = "intro" THEN "active"
    ELSE IF frequency > 0 /\ frequency <= ImmersiveLevel /\ state # "active" THEN "active"
    ELSE IF frequency > ImmersiveLevel /\ state # "immersive" THEN "immersive"
    ELSE state

\* checkState with the idle threshold compared with >=
checkStateIdleAtThreshold(state, frequency, sinceInteraction, complete) ==
    IF sinceInteraction >= IdleThreshold + CheckInterval + CheckInterval
       /\ state # "reflection" /\ state # "intro"
    THEN "reflection"
    ELSE IF complete /\ frequency = 0 /\ state = "intro" THEN "active"
    ELSE IF frequency > 0 /\ frequency <= ImmersiveLevel /\ state # "active" THEN "active"
    ELSE IF frequency > ImmersiveLevel /\ state # "immersive" THEN "immersive"
    ELSE state

\* the body of checkState: the state handed to onStateChange, or the current
\* state when no branch calls it
checkState(state, frequency, sinceInteraction, complete) ==
    IF sinceInteraction > IdleThreshold /\ state # "reflection" /\ state # "intro"
    THEN "reflection"
    ELSE IF complete /\ frequency = 0 /\ state = "intro" THEN "active"
    ELSE IF frequency > 0 /\ frequency <= ImmersiveLevel /\ state # "active" THEN "active"
    ELSE IF frequency > ImmersiveLevel /\ state # "immersive" THEN "immersive"
    ELSE state

\* the [interactionFrequency] effect stamping lastInteractionTime on increases only
ManagerSeesIncrease(f) ==
    IF f = interactionFrequency
    THEN UNCHANGED <<timeSinceInteraction, checkTimer>>
    ELSE /\ timeSinceInteraction' = IF f > interactionFrequency THEN 0
                                    ELSE timeSinceInteraction
         /\ checkTimer' = CheckInterval

\* The effects of StateManager that re-run when interactionFrequency is set to
\* f: [interactionFrequency] stamps lastInteractionTime when f > 0, and the
\* transition effect clears its interval and sets a new one.
ManagerSeesFrequency(f) ==
    IF f = interactionFrequency
    THEN UNCHANGED <<timeSinceInteraction, checkTimer>>
    ELSE /\ timeSinceInteraction' = IF f > 0 THEN 0 ELSE timeSinceInteraction
         /\ checkTimer' = CheckInterval

\* handleInteraction, as seen by StateManager
Interact(name) ==
    /\ Len(decayTimers) < MaxDecay
    /\ interactionFrequency' = clickIncrement(interactionFrequency)
    /\ decayTimers' = Append(decayTimers, DecayDelay)
    /\ ManagerSeesFrequency(clickIncrement(interactionFrequency))
    /\ lastEvent' = name
    /\ sinceEvent' = 0

\* a click anywhere in the window (ReactiveOverlay's listener calls onInteraction)
ClickSM ==
    /\ Interact("click")
    /\ UNCHANGED <<motionIntensity, contextState, audioEnabled, audioHue, audioAmplitude,
                   autoCaptureEnabled, timeSinceLastCapture, sensitivityMode, recentPeaks,
                   pollTimer, introComplete, introTimer, overlayVars,
                   sessionAge, sincePoll, sinceFire, scoreLog, frameCount, lastGap,
                   captureCalls, soundVars, micVars, mapVars, wordVars, haikuVars>>

\* SemanticLayer (mounted in active and immersive) calls onHover when a pointer
\* move creates a word, which needs interactionFrequency > 2
HoverSM ==
    /\ contextState \in {"active", "immersive"}
    /\ interactionFrequency > 2 * Unit
    /\ Interact("hover")
    /\ UNCHANGED <<motionIntensity, contextState, audioEnabled, audioHue, audioAmplitude,
                   autoCaptureEnabled, timeSinceLastCapture, sensitivityMode, recentPeaks,
                   pollTimer, introComplete, introTimer, overlayVars,
                   sessionAge, sincePoll, sinceFire, scoreLog, frameCount, lastGap,
                   captureCalls, soundVars, micVars, mapVars, wordVars, haikuVars>>

\* the timeout set by handleInteraction fires
DecaySM ==
    /\ decayTimers # <<>>
    /\ Due(Head(decayTimers))
    /\ decayTimers' = Tail(decayTimers)
    /\ interactionFrequency' = decayDecrement(interactionFrequency)
    /\ ManagerSeesFrequency(decayDecrement(interactionFrequency))
    /\ lastEvent' = "decay"
    /\ UNCHANGED <<motionIntensity, contextState, audioEnabled, audioHue, audioAmplitude,
                   autoCaptureEnabled, timeSinceLastCapture, sensitivityMode, recentPeaks,
                   pollTimer, introComplete, introTimer, overlayVars,
                   sessionAge, sinceEvent, sincePoll, sinceFire, scoreLog, frameCount, lastGap,
                   captureCalls, soundVars, micVars, mapVars, wordVars, haikuVars>>

\* the 3 s timeout of the intro effect fires: setIntroComplete(true)
IntroTimerSM ==
    /\ Due(introTimer)
    /\ introTimer' = NoTimer
    /\ introComplete' = TRUE
    /\ checkTimer' = IF introComplete THEN checkTimer ELSE CheckInterval
    /\ lastEvent' = "introTimer"
    /\ UNCHANGED <<indexVars, timeSinceInteraction, overlayVars,
                   sessionAge, sinceEvent, sincePoll, sinceFire, scoreLog, frameCount, lastGap,
                   captureCalls, soundVars, micVars, mapVars, wordVars, haikuVars>>

\* the 1 s interval fires checkState; a state change re-runs the intro effect
\* (its cleanup clears the timeout) and the transition effect
CheckStateSM ==
    /\ Due(checkTimer)
    /\ contextState' = checkState(contextState, interactionFrequency,
                                  timeSinceInteraction, introComplete)
    /\ checkTimer' = CheckInterval
    /\ introTimer' = IF contextState' = contextState THEN introTimer
                     ELSE IF contextState' = "intro" THEN IntroDelay ELSE NoTimer
    /\ lastEvent' = "checkState"
    /\ UNCHANGED <<interactionFrequency, motionIntensity, audioEnabled, audioHue,
                   audioAmplitude, autoCaptureEnabled, timeSinceLastCapture,
                   sensitivityMode, recentPeaks, decayTimers, pollTimer,
                   timeSinceInteraction, introComplete, overlayVars,
                   sessionAge, sinceEvent, sincePoll, sinceFire, scoreLog, frameCount, lastGap,
                   captureCalls, soundVars, micVars, mapVars, wordVars, haikuVars>>

\* click on the reflection overlay: onStateChange('intro'); window.location.reload().
\* The page loads again: every variable is as in Init.
ReflectionClick ==
    /\ contextState = "reflection"
    /\ interactionFrequency' = 0
    /\ motionIntensity' = 0
    /\ contextState' = "intro"
    /\ audioEnabled' = FALSE
    /\ audioHue' = 0
    /\ audioAmplitude' = 0
    /\ autoCaptureEnabled' = FALSE
    /\ timeSinceLastCapture' = NoTimer
    /\ sensitivityMode' = "balanced"
    /\ recentPeaks' = <<>>
    /\ decayTimers' = <<>>
    /\ pollTimer' = NoTimer
    /\ timeSinceInteraction' = 0
    /\ introComplete' = FALSE
    /\ introTimer' = IntroDelay
    /\ checkTimer' = CheckInterval
    /\ renderedMotion' = 0
    /\ motionTimer' = MotionDecayInterval
    /\ sinceDecay' = 0
    /\ lastEvent' = "reload"
    /\ sessionAge' = 0
    /\ sinceEvent' = 0
    /\ sincePoll' = 0
    /\ sinceFire' = NoTimer
    /\ scoreLog' = <<>>
    /\ frameCount' = 0
    /\ lastGap' = NoTimer
    /\ captureCalls' = 0
    /\ UNCHANGED soundVars        \* the engines are not imported by this page
    /\ visualizers' = [i \in 1..MaxVisualizers |-> NewVisualizer]
    /\ visualizerRef' = 0
    /\ mounted' = TRUE
    /\ micEvent' = "load"
    /\ micId' = 0
    /\ lastToggle' = "none"
    /\ UNCHANGED <<mapVars, haikuVars>>
    /\ words' = <<>>
    /\ renderedWords' = 0
    /\ wordsCreated' = 0
    /\ wordEvent' = "load"

\* the microphone button, as seen by StateManager: the click reaches the window
\* listener (handleInteraction); audioEnabled flips once start() has resolved or
\* at once when switching off; a declined start() leaves audioEnabled false
ToggleAudioSM ==
    /\ Interact("click")
    /\ audioEnabled' \in IF audioEnabled THEN {FALSE} ELSE {TRUE, FALSE}
    /\ UNCHANGED <<motionIntensity, contextState, audioHue, audioAmplitude,
                   autoCaptureEnabled, timeSinceLastCapture, sensitivityMode, recentPeaks,
                   pollTimer, introComplete, introTimer, overlayVars,
                   sessionAge, sincePoll, sinceFire, scoreLog, frameCount, lastGap,
                   captureCalls, soundVars, micVars, mapVars, wordVars, haikuVars>>

\* amplitudes of the audio frames tried, in hundredths
FrameAmplitudesSM == {AudioGate, 25, 100}

\* one analysis frame reaches the callback of toggleAudioVisualization; of its four
\* setters only setInteractionFrequency feeds StateManager's props
AudioFrameSM ==
    /\ audioEnabled
    /\ \E amplitude \in FrameAmplitudesSM :
        /\ interactionFrequency' = frameIncrement(interactionFrequency, amplitude)
        /\ ManagerSeesFrequency(frameIncrement(interactionFrequency, amplitude))
        /\ sinceEvent' = IF amplitude > AudioGate THEN 0 ELSE sinceEvent
    /\ lastEvent' = "frame"
    /\ UNCHANGED <<motionIntensity, contextState, audioEnabled, audioHue, audioAmplitude,
                   autoCaptureEnabled, timeSinceLastCapture, sensitivityMode, recentPeaks,
                   decayTimers, pollTimer, introComplete, introTimer, overlayVars,
                   sessionAge, sincePoll, sinceFire, scoreLog, frameCount, lastGap,
                   captureCalls, soundVars, micVars, mapVars, wordVars, haikuVars>>

\* CheckInterval milliseconds pass; no timer of StateManager or handleInteraction is overdue
AdvanceSM ==
    /\ NotOverdue(checkTimer, CheckInterval)
    /\ NotOverdue(introTimer, CheckInterval)
    /\ \A i \in 1..Len(decayTimers) : NotOverdue(decayTimers[i], CheckInterval)
    /\ checkTimer' = Later(checkTimer, CheckInterval)
    /\ introTimer' = Later(introTimer, CheckInterval)
    /\ decayTimers' = [i \in 1..Len(decayTimers) |-> Later(decayTimers[i], CheckInterval)]
    /\ timeSinceInteraction' =
           Older(timeSinceInteraction, CheckInterval, IdleThreshold + CheckInterval)
    /\ sessionAge' = Older(sessionAge, CheckInterval, SessionCap)
    /\ sinceEvent' = Older(sinceEvent, CheckInterval, IdleCap)
    /\ lastEvent' = "time"
    /\ UNCHANGED <<interactionFrequency, motionIntensity, contextState, audioEnabled,
                   audioHue, audioAmplitude, autoCaptureEnabled, timeSinceLastCapture,
                   sensitivityMode, recentPeaks, pollTimer, introComplete, overlayVars,
                   sincePoll, sinceFire, scoreLog, frameCount, lastGap,
                   captureCalls, soundVars, micVars, mapVars, wordVars, haikuVars>>

NextSM ==
    \/ ClickSM
    \/ HoverSM
    \/ DecaySM
    \/ IntroTimerSM
    \/ CheckStateSM
    \/ ReflectionClick
    \/ ToggleAudioSM
    \/ AudioFrameSM
    \/ AdvanceSM

\* Timers fire when due and time passes: the browser's event loop
SpecSM ==
    /\ Init
    /\ [][NextSM]_vars
    /\ WF_vars(AdvanceSM)
    /\ WF_vars(CheckStateSM)
    /\ WF_vars(IntroTimerSM)
    /\ WF_vars(DecaySM)

----
\* lib/audioVisualization: the signal mapper

\* Math.pow(amplitude, 0.7) * 10 for amplitude = 0.00, 0.01, ..., 1.00, rounded
\* to hundredths
PowerTable ==
    << 0, 40, 65, 86, 105, 123, 140, 155, 171, 185,
       200, 213, 227, 240, 253, 265, 277, 289, 301, 313,
       324, 335, 346, 357, 368, 379, 389, 400, 410, 420,
       431, 441, 450, 460, 470, 480, 489, 499, 508, 517,
       527, 536, 545, 554, 563, 572, 581, 589, 598, 607,
       616, 624, 633, 641, 650, 658, 666, 675, 683, 691,
       699, 708, 716, 724, 732, 740, 748, 756, 763, 771,
       779, 787, 795, 802, 810, 818, 825, 833, 840, 848,
       855, 863, 870, 878, 885, 892, 900, 907, 914, 922,
       929, 936, 943, 950, 958, 965, 972, 979, 986, 993,
       1000 >>

\* the scaling by 15 in place of 10, without Math.min
mapAmplitudeToIntensityUnclamped(amplitude) == (PowerTable[amplitude + 1] * 3) \div 2

\* amplitude in hundredths (0..100), the intensity in hundredths
mapAmplitudeToIntensity(amplitude) == Min(MaxLevel, PowerTable[amplitude + 1])

MinFreq == 20
MaxFreq == 2000

\* frequency in Hz, the hue in hundredths of a degree
mapFrequencyToHue(frequency) ==
    270 * Unit
        + ((Max(MinFreq, Min(MaxFreq, frequency)) - MinFreq) * 120 * Unit)
              \div (MaxFreq - MinFreq)

----
\* pages/Index: the callback given to AudioVisualizer, setter by setter

\* setMotionIntensity(prev => Math.min(10, prev + intensity * 1.5))
frameMotion(prev, amplitude) ==
    Min(MaxLevel, prev + (mapAmplitudeToIntensity(amplitude) * 3) \div 2)
\* setAudioAmplitude(Math.min(1, amplitude * 2))
frameAmplitude(amplitude) == Min(Unit, amplitude * 2)

----
\* components/ReactiveOverlay

MotionDecayStep == Unit \div 10     \* motionIntensity - 0.1

\* onMotionChange(Math.min(10, motionIntensity + movement * 0.01)): motion is
\* the motionIntensity of the render the listener closed over, movement in pixels
pointerMotion(motion, movement) == Min(MaxLevel, motion + movement)
\* onMotionChange(Math.max(0, motionIntensity - 0.1))
decayedMotion(motion) == Max(0, motion - MotionDecayStep)

----
\* The interaction tracker (SpecTracker): the handlers that write
\* interactionFrequency and motionIntensity.  Durations are left out: a pending
\* timeout or interval may fire at any step, so every order and burst rate of
\* the events is covered.  ReactiveOverlay's listeners and interval are set up
\* again by an effect after the re-render that follows a motionIntensity
\* change; until then they keep the value they closed over (renderedMotion).

FrameAmplitudes == {0, 100}
FrameFrequencies == {MinFreq, MaxFreq}
Movements == {50, 2000}

TrackerUnchanged ==
    UNCHANGED <<contextState, autoCaptureEnabled, timeSinceLastCapture, sensitivityMode,
                recentPeaks, pollTimer, managerVars, motionTimer, sinceDecay,
                sessionAge, sinceEvent, sincePoll, sinceFire, scoreLog, frameCount, lastGap,
                   captureCalls, soundVars, micVars, mapVars, wordVars, haikuVars>>

\* handleInteraction
InteractT(name) ==
    /\ Len(decayTimers) < MaxDecay
    /\ interactionFrequency' = clickIncrement(interactionFrequency)
    /\ decayTimers' = Append(decayTimers, DecayDelay)
    /\ lastEvent' = name

ClickT ==
    /\ InteractT("click")
    /\ UNCHANGED <<motionIntensity, renderedMotion, audioEnabled, audioHue, audioAmplitude>>
    /\ TrackerUnchanged

\* SemanticLayer's onHover; whether SemanticLayer is mounted is not tracked here
HoverT ==
    /\ interactionFrequency > 2 * Unit
    /\ InteractT("hover")
    /\ UNCHANGED <<motionIntensity, renderedMotion, audioEnabled, audioHue, audioAmplitude>>
    /\ TrackerUnchanged

DecayT ==
    /\ decayTimers # <<>>
    /\ decayTimers' = Tail(decayTimers)
    /\ interactionFrequency' = decayDecrement(interactionFrequency)
    /\ lastEvent' = "decay"
    /\ UNCHANGED <<motionIntensity, renderedMotion, audioEnabled, audioHue, audioAmplitude>>
    /\ TrackerUnchanged

\* toggleAudioVisualization; the click also reaches the window listener
ToggleAudioT ==
    /\ InteractT("click")
    /\ IF audioEnabled
       THEN /\ audioEnabled' = FALSE
            /\ audioHue' = 0
            /\ audioAmplitude' = 0
       ELSE /\ audioEnabled' \in {TRUE, FALSE}
            /\ UNCHANGED <<audioHue, audioAmplitude>>
    /\ UNCHANGED <<motionIntensity, renderedMotion>>
    /\ TrackerUnchanged

\* one analysis frame: the four setters of the callback
AudioFrameT ==
    /\ audioEnabled
    /\ \E amplitude \in FrameAmplitudes, frequency \in FrameFrequencies :
        /\ motionIntensity' = frameMotion(motionIntensity, amplitude)
        /\ audioHue' = mapFrequencyToHue(frequency)
        /\ audioAmplitude' = frameAmplitude(amplitude)
        /\ interactionFrequency' = frameIncrement(interactionFrequency, amplitude)
    /\ lastEvent' = "frame"
    /\ UNCHANGED <<renderedMotion, audioEnabled, decayTimers>>
    /\ TrackerUnchanged

\* handleMouseMove of ReactiveOverlay
PointerMoveT ==
    /\ \E movement \in Movements :
        motionIntensity' = pointerMotion(renderedMotion, movement)
    /\ lastEvent' = "move"
    /\ UNCHANGED <<interactionFrequency, renderedMotion, audioEnabled, audioHue,
                   audioAmplitude, decayTimers>>
    /\ TrackerUnchanged

\* the 100 ms interval of ReactiveOverlay
MotionDecayT ==
    /\ motionIntensity' = decayedMotion(renderedMotion)
    /\ lastEvent' = "motionDecay"
    /\ UNCHANGED <<interactionFrequency, renderedMotion, audioEnabled, audioHue,
                   audioAmplitude, decayTimers>>
    /\ TrackerUnchanged

\* ReactiveOverlay re-renders with the new motionIntensity and its effects run again
OverlayRenderT ==
    /\ renderedMotion # motionIntensity
    /\ renderedMotion' = motionIntensity
    /\ lastEvent' = "render"
    /\ UNCHANGED <<interactionFrequency, motionIntensity, audioEnabled, audioHue,
                   audioAmplitude, decayTimers>>
    /\ TrackerUnchanged

NextT ==
    \/ ClickT
    \/ HoverT
    \/ DecayT
    \/ ToggleAudioT
    \/ AudioFrameT
    \/ PointerMoveT
    \/ MotionDecayT
    \/ OverlayRenderT

SpecTracker == Init /\ [][NextT]_vars

----
\* pages/Index: the auto-capture effect and detectPeak

PollInterval == 500
WindowCapacity == 50
ScoreOne == 1000 * Unit         \* a composite score of 1.0

\* SENSITIVITY_PRESETS[mode].threshold, as a composite score
presetThreshold(mode) ==
    CASE mode = "subtle" -> 85 * (ScoreOne \div 100)
      [] mode = "balanced" -> 70 * (ScoreOne \div 100)
      [] mode = "explosive" -> 55 * (ScoreOne \div 100)

\* SENSITIVITY_PRESETS[mode].cooldown
presetCooldown(mode) ==
    CASE mode = "subtle" -> 8000
      [] mode = "balanced" -> 5000
      [] mode = "explosive" -> 3000

\* significanceThreshold, in hundredths
significanceThreshold(mode) ==
    IF mode = "explosive" THEN 50 ELSE IF mode = "subtle" THEN 80 ELSE 70

ThresholdBand == ScoreOne \div 10      \* the 0.1 of dynamicThreshold

\* the next mode of the sensitivity button
nextMode(mode) ==
    CASE mode = "subtle" -> "balanced"
      [] mode = "balanced" -> "explosive"
      [] mode = "explosive" -> "subtle"

\* compositeScore: audioScore * 0.5 + motionScore * 0.3 + interactionScore * 0.2
compositeScore(amplitude, motion, interaction) ==
    amplitude * (ScoreOne \div Unit) * 5
        + Min(ScoreOne, motion * (ScoreOne \div MaxLevel)) * 3
        + Min(ScoreOne, interaction * (ScoreOne \div MaxLevel)) * 2

\* composite scores carry the factor 10 of the weights
Weighted(score) == 10 * score

\* lib/ambientSoundscape updateSoundscape: combinedIntensity =
\* amplitude * 0.4 + normalizedMotion * 0.35 + normalizedInteraction * 0.25,
\* carrying the factor 100 of the weights
combinedIntensity(amplitude, motion, interaction) ==
    amplitude * (ScoreOne \div Unit) * 40
        + Min(ScoreOne, motion * (ScoreOne \div MaxLevel)) * 35
        + Min(ScoreOne, interaction * (ScoreOne \div MaxLevel)) * 25

\* the push with pop() in place of shift(): the newest sample is dropped
pushPeakDropsNewest(peaks, score) ==
    IF Len(peaks) + 1 > WindowCapacity THEN peaks ELSE Append(peaks, score)

\* peaks.push(compositeScore); if (peaks.length > 50) peaks.shift()
pushPeak(peaks, score) ==
    IF Len(peaks) + 1 > WindowCapacity THEN Tail(Append(peaks, score))
    ELSE Append(peaks, score)

RECURSIVE SumOf(_)
SumOf(peaks) == IF peaks = <<>> THEN 0 ELSE Head(peaks) + SumOf(Tail(peaks))

\* the dynamic threshold held at its lower bound, threshold - 0.1
scaledThresholdFloor(peaks, mode) ==
    (Weighted(presetThreshold(mode)) - Weighted(ThresholdBand)) * Len(peaks)

\* the dynamic threshold without the Math.min(threshold + 0.1, ...)
scaledThresholdNoCeiling(peaks, mode) ==
    Max((Weighted(presetThreshold(mode)) - Weighted(ThresholdBand)) * Len(peaks),
        SumOf(peaks) + Weighted(ThresholdBand) * Len(peaks))

\* the dynamic threshold without the Math.max(threshold - 0.1, ...)
scaledThresholdNoFloor(peaks, mode) ==
    Min((Weighted(presetThreshold(mode)) + Weighted(ThresholdBand)) * Len(peaks),
        SumOf(peaks) + Weighted(ThresholdBand) * Len(peaks))

\* dynamicThreshold multiplied by peaks.length (avgPeak is a quotient):
\* Math.max(threshold - 0.1, Math.min(threshold + 0.1, avgPeak + 0.1))
scaledThreshold(peaks, mode) ==
    Max((Weighted(presetThreshold(mode)) - Weighted(ThresholdBand)) * Len(peaks),
        Min((Weighted(presetThreshold(mode)) + Weighted(ThresholdBand)) * Len(peaks),
            SumOf(peaks) + Weighted(ThresholdBand) * Len(peaks)))

\* the cooldown test with >= in place of >
cooldownReached(sinceCapture, mode) ==
    sinceCapture = NoTimer \/ sinceCapture >= presetCooldown(mode)

\* timeSinceLastCapture > preset.cooldown; NoTimer stands for lastCaptureTime = 0
cooldownElapsed(sinceCapture, mode) ==
    sinceCapture = NoTimer \/ sinceCapture > presetCooldown(mode)

\* isPeak, peaks being the window after the push
isPeak(score, peaks, sinceCapture, mode) ==
    /\ score * Len(peaks) > scaledThreshold(peaks, mode)
    /\ cooldownElapsed(sinceCapture, mode)

\* the significance gate with || between the motion and the interaction test
isSignificantMomentEither(amplitude, motion, interaction, mode) ==
    \/ amplitude > significanceThreshold(mode)
    \/ motion > MaxLevel - significanceThreshold(mode) * 5
    \/ interaction > MaxLevel - significanceThreshold(mode) * 5

\* isSignificantMoment
isSignificantMoment(amplitude, motion, interaction, mode) ==
    \/ amplitude > significanceThreshold(mode)
    \/ /\ motion > MaxLevel - significanceThreshold(mode) * 5
       /\ interaction > MaxLevel - significanceThreshold(mode) * 5

\* the auto-capture effect without its test of autoCaptureEnabled
pollTimerForAudio(autoCapture, audio) ==
    IF audio THEN PollInterval ELSE NoTimer

\* the timer of the auto-capture effect after the effect has run
pollTimerFor(autoCapture, audio) ==
    IF autoCapture /\ audio THEN PollInterval ELSE NoTimer

CaptureCap == presetCooldown("subtle") + PollInterval
PollCap == 2 * PollInterval

\* the 500 ms interval fires detectPeak; on a capture setLastCaptureTime(now)
\* re-renders and the effect sets a new interval
DetectPeak(maxPolls) ==
    /\ Due(pollTimer)
    /\ Len(scoreLog) < maxPolls
    /\ LET score == compositeScore(audioAmplitude, motionIntensity, interactionFrequency)
           peaks == pushPeak(recentPeaks, score)
           fire == /\ isPeak(score, peaks, timeSinceLastCapture, sensitivityMode)
                   /\ isSignificantMoment(audioAmplitude, motionIntensity,
                                          interactionFrequency, sensitivityMode)
       IN /\ recentPeaks' = peaks
          /\ scoreLog' = Append(scoreLog, score)
          /\ timeSinceLastCapture' = IF fire THEN 0 ELSE timeSinceLastCapture
          /\ sinceFire' = IF fire THEN 0 ELSE sinceFire
          /\ lastGap' = IF fire THEN sinceFire ELSE lastGap
          /\ captureCalls' = IF fire THEN 1 ELSE 0
    /\ pollTimer' = PollInterval
    /\ sincePoll' = 0
    /\ UNCHANGED <<interactionFrequency, motionIntensity, contextState, audioEnabled,
                   audioHue, audioAmplitude, autoCaptureEnabled, sensitivityMode,
                   decayTimers, managerVars, overlayVars, lastEvent, sessionAge,
                   sinceEvent, frameCount, soundVars, micVars, mapVars, wordVars, haikuVars>>

PeakUnchanged ==
    UNCHANGED <<contextState, decayTimers, managerVars, overlayVars, lastEvent,
                sessionAge, sinceEvent, scoreLog, recentPeaks, lastGap, captureCalls,
                soundVars, micVars, mapVars, wordVars, haikuVars>>

\* the auto-capture button (shown while audio is enabled)
ToggleAutoCapture ==
    /\ audioEnabled
    /\ autoCaptureEnabled' = ~autoCaptureEnabled
    /\ pollTimer' = pollTimerFor(~autoCaptureEnabled, audioEnabled)
    /\ sincePoll' = 0
    /\ UNCHANGED <<interactionFrequency, motionIntensity, audioEnabled, audioHue,
                   audioAmplitude, timeSinceLastCapture, sensitivityMode, sinceFire,
                   frameCount>>
    /\ PeakUnchanged

\* the sensitivity button (shown while auto-capture is enabled)
CycleSensitivity ==
    /\ autoCaptureEnabled
    /\ sensitivityMode' = nextMode(sensitivityMode)
    /\ pollTimer' = pollTimerFor(autoCaptureEnabled, audioEnabled)
    /\ sincePoll' = 0
    /\ UNCHANGED <<interactionFrequency, motionIntensity, audioEnabled, audioHue,
                   audioAmplitude, autoCaptureEnabled, timeSinceLastCapture, sinceFire,
                   frameCount>>
    /\ PeakUnchanged

\* toggleAudioVisualization with start() resolved or declined
ToggleAudioP ==
    /\ IF audioEnabled
       THEN /\ audioEnabled' = FALSE
            /\ audioHue' = 0
            /\ audioAmplitude' = 0
       ELSE /\ audioEnabled' \in {TRUE, FALSE}
            /\ UNCHANGED <<audioHue, audioAmplitude>>
    /\ pollTimer' = IF audioEnabled' = audioEnabled /\ audioAmplitude' = audioAmplitude
                    THEN pollTimer
                    ELSE pollTimerFor(autoCaptureEnabled, audioEnabled')
    /\ sincePoll' = IF audioEnabled' = audioEnabled THEN sincePoll ELSE 0
    /\ UNCHANGED <<interactionFrequency, motionIntensity, autoCaptureEnabled,
                   timeSinceLastCapture, sensitivityMode, sinceFire, frameCount>>
    /\ PeakUnchanged

\* amplitudes of the frames tried in the detector's specifications
PeakAmplitudes == {0, 30, 100}

\* one analysis frame; a changed audioAmplitude, motionIntensity or
\* interactionFrequency re-runs the auto-capture effect
AudioFrameP(maxFrames) ==
    /\ audioEnabled
    /\ frameCount < maxFrames
    /\ frameCount' = frameCount + 1
    /\ \E amplitude \in PeakAmplitudes :
        /\ motionIntensity' = frameMotion(motionIntensity, amplitude)
        /\ audioHue' = mapFrequencyToHue(MinFreq)
        /\ audioAmplitude' = frameAmplitude(amplitude)
        /\ interactionFrequency' = frameIncrement(interactionFrequency, amplitude)
    /\ pollTimer' = IF <<audioAmplitude', motionIntensity', interactionFrequency'>>
                        = <<audioAmplitude, motionIntensity, interactionFrequency>>
                    THEN pollTimer
                    ELSE pollTimerFor(autoCaptureEnabled, audioEnabled)
    /\ UNCHANGED <<audioEnabled, autoCaptureEnabled, timeSinceLastCapture,
                   sensitivityMode, sincePoll, sinceFire>>
    /\ PeakUnchanged

\* PollInterval milliseconds pass; the interval of the effect is not overdue
AdvanceP ==
    /\ NotOverdue(pollTimer, PollInterval)
    /\ pollTimer' = Later(pollTimer, PollInterval)
    /\ timeSinceLastCapture' =
           IF timeSinceLastCapture = NoTimer THEN NoTimer
           ELSE Older(timeSinceLastCapture, PollInterval, CaptureCap)
    /\ sinceFire' = IF sinceFire = NoTimer THEN NoTimer
                    ELSE Older(sinceFire, PollInterval, CaptureCap)
    /\ sincePoll' = IF pollTimer = NoTimer THEN 0
                    ELSE Older(sincePoll, PollInterval, PollCap)
    /\ UNCHANGED <<interactionFrequency, motionIntensity, audioEnabled, audioHue,
                   audioAmplitude, autoCaptureEnabled, sensitivityMode, frameCount>>
    /\ PeakUnchanged

\* Bounds of the detector's specifications
MaxPolls == 4                  \* polls of a run of SpecPeak
MaxFrames == 1                 \* audio frames of a run

PollP == DetectPeak(MaxPolls)
FrameP == AudioFrameP(MaxFrames)

NextP ==
    \/ PollP
    \/ FrameP
    \/ ToggleAudioP
    \/ ToggleAutoCapture
    \/ CycleSensitivity
    \/ AdvanceP

SpecPeak == Init /\ [][NextP]_vars

----
\* The rolling window over a long run (SpecWindow): detectPeak is polled past
\* the capacity of the window; the buttons are pressed and the control values,
\* and so the scores, change only before the first MaxVaried polls.

MaxPollsW == 52                \* polls of a run of SpecWindow
MaxVaried == 3                 \* polls before which the control values may change

PollW == DetectPeak(MaxPollsW)

FrameW ==
    /\ Len(scoreLog) < MaxVaried
    /\ AudioFrameP(MaxFrames)

ToggleAudioW ==
    /\ Len(scoreLog) < MaxVaried
    /\ ToggleAudioP

ToggleAutoCaptureW ==
    /\ Len(scoreLog) < MaxVaried
    /\ ToggleAutoCapture

CycleSensitivityW ==
    /\ Len(scoreLog) < MaxVaried
    /\ CycleSensitivity

NextW ==
    \/ PollW
    \/ FrameW
    \/ ToggleAudioW
    \/ ToggleAutoCaptureW
    \/ CycleSensitivityW
    \/ AdvanceP

SpecWindow == Init /\ [][NextW]_vars

----
\* The switches of the detector (SpecSwitch): the actions of SpecPeak with
\* fewer polls, for what holds of turning audio or auto-capture off.

MaxPollsS == 2                 \* polls of a run of SpecSwitch

PollS == DetectPeak(MaxPollsS)

NextSwitch ==
    \/ PollS
    \/ FrameP
    \/ ToggleAudioP
    \/ ToggleAutoCapture
    \/ CycleSensitivity
    \/ AdvanceP

SpecSwitch == Init /\ [][NextSwitch]_vars

----
\* detectPeak as a function of the state it reads (SpecGate): a session in
\* which audio and auto-capture are enabled and a poll is due, the control
\* values, the preset, the window and the time of the last capture drawn from
\* the sets below.

GateAmplitudes == {0, 50, 100}
GateMotions == {0, 5 * Unit, 8 * Unit, MaxLevel}
GateInteractions == {0, 8 * Unit, MaxLevel}
GateWindows == {<<>>, <<0>>, <<compositeScore(100, MaxLevel, MaxLevel)>>}
GateSinceCapture == {NoTimer} \cup {presetCooldown(mode) : mode \in SensitivityModes}

MaxPollsG == 3                 \* samples logged in a run of SpecGate

InitGate ==
    /\ InitSound
    /\ InitMic
    /\ NoMapCall
    /\ NoWords
    /\ NoHaiku
    /\ audioAmplitude \in GateAmplitudes
    /\ motionIntensity \in GateMotions
    /\ interactionFrequency \in GateInteractions
    /\ sensitivityMode \in SensitivityModes
    /\ recentPeaks \in GateWindows
    /\ timeSinceLastCapture \in GateSinceCapture
    /\ contextState = "active"
    /\ audioEnabled = TRUE
    /\ audioHue = mapFrequencyToHue(MinFreq)
    /\ autoCaptureEnabled = TRUE
    /\ decayTimers = <<>>
    /\ pollTimer = 0
    /\ timeSinceInteraction = 0
    /\ introComplete = TRUE
    /\ introTimer = NoTimer
    /\ checkTimer = CheckInterval
    /\ renderedMotion = motionIntensity
    /\ motionTimer = MotionDecayInterval
    /\ sinceDecay = 0
    /\ lastEvent = "time"
    /\ sessionAge = SessionCap
    /\ sinceEvent = 0
    /\ sincePoll = PollInterval
    /\ sinceFire = timeSinceLastCapture
    /\ scoreLog = recentPeaks
    /\ frameCount = 0
    /\ lastGap = NoTimer
    /\ captureCalls = 0

PollG == DetectPeak(MaxPollsG)

NextG ==
    \/ PollG
    \/ AdvanceP

SpecGate == InitGate /\ [][NextG]_vars

----
\* lib/ambientSoundscape: the drone engine and the sample-bed engine. A fade
\* and the timeout set with it are kept as one queue entry, "fading" until the
\* ramp has ended and "faded" until the timeout fires; timeouts of one kind
\* fire in the order they were set.

DroneLayerCount == 6
TrackCount == 4
TrackSlots == 0 .. (TrackCount - 1)

MaxStops == 2                  \* stop() calls whose teardown is pending, per engine
MaxStarts == 2                 \* start() calls awaiting loadTracks()
MaxFades == 2                  \* crossfade stop timeouts pending

\* everything outside the sound engines
pageVars == <<indexVars, managerVars, overlayVars, observerVars, micVars, mapVars, volumeVars,
              padVars,
              wordVars, haikuVars>>

\* the first entry still fading has reached the end of its ramp
FadeEnds(queue) ==
    [k \in 1..Len(queue) |->
        IF queue[k].phase = "fading" /\ \A j \in 1..(k - 1) : queue[j].phase = "faded"
        THEN [queue[k] EXCEPT !.phase = "faded"]
        ELSE queue[k]]

Fading(queue) == \E k \in 1..Len(queue) : queue[k].phase = "fading"

\* drone engine: startAmbientSoundscape
startDrone ==
    /\ soundEvent' = "droneStart"
    /\ lastDroneCall' = "start"
    /\ IF droneIsPlaying
       THEN UNCHANGED <<droneContext, droneIsPlaying, droneLayers, subBass, noiseNode,
                        droneStops>>
       ELSE /\ droneContext' = TRUE
            /\ droneLayers' = droneLayers + DroneLayerCount
            /\ subBass' = TRUE
            /\ noiseNode' = TRUE
            /\ droneIsPlaying' = TRUE
            /\ UNCHANGED droneStops
    /\ UNCHANGED <<bedVars, startSources, pageVars>>

\* drone engine: stopAmbientSoundscape
stopDrone ==
    /\ Len(droneStops) < MaxStops
    /\ soundEvent' = "droneStop"
    /\ lastDroneCall' = "stop"
    /\ IF ~droneIsPlaying \/ ~droneContext
       THEN UNCHANGED <<droneContext, droneIsPlaying, droneLayers, subBass, noiseNode,
                        droneStops>>
       ELSE /\ droneStops' = Append(droneStops, [phase |-> "fading"])
            /\ UNCHANGED <<droneContext, droneIsPlaying, droneLayers, subBass, noiseNode>>
    /\ UNCHANGED <<bedVars, startSources, pageVars>>

\* drone engine: the 2 s ramp of the master gain ends
DroneFadeEnds ==
    /\ Fading(droneStops)
    /\ droneStops' = FadeEnds(droneStops)
    /\ soundEvent' = "droneFaded"
    /\ UNCHANGED <<droneContext, droneIsPlaying, droneLayers, subBass, noiseNode,
                   lastDroneCall>>
    /\ UNCHANGED <<bedVars, startSources, pageVars>>

\* drone engine: the teardown timeout of stopAmbientSoundscape
DroneTeardown ==
    /\ droneStops # <<>>
    /\ Head(droneStops).phase = "faded"
    /\ droneStops' = Tail(droneStops)
    /\ droneLayers' = 0
    /\ subBass' = FALSE
    /\ noiseNode' = FALSE
    /\ droneIsPlaying' = FALSE
    /\ soundEvent' = "droneTeardown"
    /\ UNCHANGED <<droneContext, lastDroneCall, bedVars, startSources, pageVars>>

\* tracks.findIndex(t => t.buffer !== null)
firstLoadedIndex(buffers) ==
    IF buffers = {} THEN 0 - 1 ELSE CHOOSE i \in buffers : \A j \in buffers : i <= j

\* loadedTracks[n]
loadedTrack(buffers, n) == CHOOSE i \in buffers : Cardinality({j \in buffers : j < i}) = n

\* playTrack: the sources set after playTrack(index)
playTrack(sources, buffers, context, index) ==
    IF ~context \/ index \notin buffers THEN sources ELSE sources \cup {index}

\* sample-bed engine: the part of startAmbientSoundscape after `await loadTracks()`,
\* run by `calls` pending calls one after the other
StartContinues(calls, buffers) ==
    IF calls = 0 \/ firstLoadedIndex(buffers) < 0
    THEN UNCHANGED <<bedIsPlaying, currentTrackIndex, trackSources, startSources>>
    ELSE /\ currentTrackIndex' = firstLoadedIndex(buffers)
         /\ trackSources' = playTrack(trackSources, buffers, TRUE, firstLoadedIndex(buffers))
         /\ bedIsPlaying' = TRUE
         /\ startSources' = startSources + calls

\* sample-bed engine: startAmbientSoundscape, up to `await loadTracks()`; with
\* the tracks already loaded the call runs through
startBed ==
    /\ startsAwaiting < MaxStarts
    /\ soundEvent' = "bedStart"
    /\ IF bedIsPlaying
       THEN UNCHANGED <<bedVars, startSources>>
       ELSE /\ bedContext' = TRUE
            /\ IF trackLoad = "done"
               THEN /\ StartContinues(1, trackBuffers)
                    /\ UNCHANGED <<trackLoad, startsAwaiting>>
               ELSE /\ trackLoad' = "loading"
                    /\ startsAwaiting' = startsAwaiting + 1
                    /\ UNCHANGED <<bedIsPlaying, currentTrackIndex, trackSources,
                                   startSources>>
            /\ UNCHANGED <<trackBuffers, bedStops, crossfades>>
    /\ UNCHANGED <<droneVars, pageVars>>

\* outcomes of loadTracks: the slots whose fetch and decode succeeded
LoadOutcomes == {{}, {1, 3}, TrackSlots}

\* sample-bed engine: trackLoadPromise resolves and the awaiting calls continue
TracksLoaded ==
    /\ trackLoad = "loading"
    /\ trackLoad' = "done"
    /\ \E buffers \in LoadOutcomes :
        /\ trackBuffers' = buffers
        /\ StartContinues(startsAwaiting, buffers)
    /\ startsAwaiting' = 0
    /\ soundEvent' = "bedLoaded"
    /\ UNCHANGED <<bedContext, bedStops, crossfades, droneVars, pageVars>>

\* sample-bed engine: stopAmbientSoundscape
stopBed ==
    /\ Len(bedStops) < MaxStops
    /\ soundEvent' = "bedStop"
    /\ IF ~bedIsPlaying \/ ~bedContext
       THEN UNCHANGED bedVars
       ELSE /\ bedStops' = Append(bedStops, [phase |-> "fading"])
            /\ UNCHANGED <<bedContext, bedIsPlaying, trackLoad, trackBuffers, trackSources,
                           currentTrackIndex, startsAwaiting, crossfades>>
    /\ UNCHANGED <<droneVars, startSources, pageVars>>

\* sample-bed engine: the 2 s ramp of the master gain ends
BedFadeEnds ==
    /\ Fading(bedStops)
    /\ bedStops' = FadeEnds(bedStops)
    /\ soundEvent' = "bedFaded"
    /\ UNCHANGED <<bedContext, bedIsPlaying, trackLoad, trackBuffers, trackSources,
                   currentTrackIndex, startsAwaiting, crossfades>>
    /\ UNCHANGED <<droneVars, startSources, pageVars>>

\* sample-bed engine: the teardown timeout of stopAmbientSoundscape
BedTeardown ==
    /\ bedStops # <<>>
    /\ Head(bedStops).phase = "faded"
    /\ bedStops' = Tail(bedStops)
    /\ trackSources' = {}
    /\ bedIsPlaying' = FALSE
    /\ startSources' = 0
    /\ soundEvent' = "bedTeardown"
    /\ UNCHANGED <<bedContext, trackLoad, trackBuffers, currentTrackIndex, startsAwaiting,
                   crossfades>>
    /\ UNCHANGED <<droneVars, pageVars>>

\* hues passed to updateSoundscape, in degrees
Hues == {0, 200, 390}

\* the selection among all tracks, loaded or not
targetTrackOfAll(hue, buffers) == Min((hue * TrackCount) \div 360, TrackCount - 1)

\* the track updateSoundscape selects for a hue
targetTrack(hue, buffers) ==
    loadedTrack(buffers, Min((hue * Cardinality(buffers)) \div 360, Cardinality(buffers) - 1))

\* sample-bed engine: updateSoundscape, with crossfadeTo when the target differs
updateBed ==
    /\ Len(crossfades) < MaxFades
    /\ \E hue \in Hues :
        IF bedIsPlaying /\ bedContext /\ Cardinality(trackBuffers) > 1
            /\ targetTrack(hue, trackBuffers) # currentTrackIndex
        THEN /\ crossfades' =
                    IF currentTrackIndex \in trackSources
                    THEN Append(crossfades, [slot |-> currentTrackIndex, phase |-> "fading"])
                    ELSE crossfades
             /\ currentTrackIndex' = targetTrack(hue, trackBuffers)
             /\ trackSources' = playTrack(trackSources, trackBuffers, bedContext,
                                          targetTrack(hue, trackBuffers))
             /\ soundEvent' = "crossfade"
        ELSE /\ soundEvent' = "bedUpdate"
             /\ UNCHANGED <<crossfades, currentTrackIndex, trackSources>>
    /\ UNCHANGED <<bedContext, bedIsPlaying, trackLoad, trackBuffers, startsAwaiting,
                   bedStops>>
    /\ UNCHANGED <<droneVars, startSources, pageVars>>

\* sample-bed engine: the 4 s ramp of a crossfade ends
CrossfadeEnds ==
    /\ Fading(crossfades)
    /\ crossfades' = FadeEnds(crossfades)
    /\ soundEvent' = "crossfaded"
    /\ UNCHANGED <<bedContext, bedIsPlaying, trackLoad, trackBuffers, trackSources,
                   currentTrackIndex, startsAwaiting, bedStops>>
    /\ UNCHANGED <<droneVars, startSources, pageVars>>

\* sample-bed engine: the stop timeout of crossfadeTo, on the slot it closed over
CrossfadeTimeout ==
    /\ crossfades # <<>>
    /\ Head(crossfades).phase = "faded"
    /\ crossfades' = Tail(crossfades)
    /\ trackSources' = trackSources \ {Head(crossfades).slot}
    /\ soundEvent' = "crossfadeTimeout"
    /\ UNCHANGED <<bedContext, bedIsPlaying, trackLoad, trackBuffers, currentTrackIndex,
                   startsAwaiting, bedStops>>
    /\ UNCHANGED <<droneVars, startSources, pageVars>>

NextSound ==
    \/ startDrone
    \/ stopDrone
    \/ DroneFadeEnds
    \/ DroneTeardown
    \/ startBed
    \/ TracksLoaded
    \/ stopBed
    \/ BedFadeEnds
    \/ BedTeardown
    \/ updateBed
    \/ CrossfadeEnds
    \/ CrossfadeTimeout

SpecSound == Init /\ [][NextSound]_vars

----
\* The sample-bed engine alone
NextBed ==
    \/ startBed
    \/ TracksLoaded
    \/ stopBed
    \/ BedFadeEnds
    \/ BedTeardown
    \/ updateBed
    \/ CrossfadeEnds
    \/ CrossfadeTimeout

SpecBed == Init /\ [][NextBed]_vars

----
\* The volume setters (SpecVolume): setSoundscapeVolume of the drone engine and
\* setMasterVolume of the sound utilities, each on the master gain of its own
\* module.

Volumes == {0 - 50, 0, 30, Unit, Unit + 50}      \* hundredths

\* Math.max(0, Math.min(1, volume))
clampVolume(volume) == Max(0, Min(Unit, volume))

\* sound utilities: initAudioContext
initTone ==
    /\ toneContext' = TRUE
    /\ soundEvent' = "toneInit"
    /\ UNCHANGED <<droneVars, bedVars, startSources, volumeCall, padVars, indexVars, managerVars,
                   overlayVars, observerVars, micVars, mapVars, wordVars, haikuVars>>

\* drone engine: setSoundscapeVolume
setSoundscapeVolume ==
    /\ \E volume \in Volumes :
        volumeCall' =
            IF droneContext
            THEN [setter |-> "setSoundscapeVolume", volume |-> volume,
                  method |-> "setTargetAtTime", target |-> clampVolume(volume)]
            ELSE [setter |-> "setSoundscapeVolume", volume |-> volume,
                  method |-> "none", target |-> 0]
    /\ soundEvent' = "volume"
    /\ UNCHANGED <<droneVars, bedVars, startSources, toneContext, padVars, indexVars, managerVars,
                   overlayVars, observerVars, micVars, mapVars, wordVars, haikuVars>>

\* sound utilities: setMasterVolume
setMasterVolume ==
    /\ \E volume \in Volumes :
        volumeCall' =
            IF toneContext
            THEN [setter |-> "setMasterVolume", volume |-> volume,
                  method |-> "setValueAtTime", target |-> clampVolume(volume)]
            ELSE [setter |-> "setMasterVolume", volume |-> volume,
                  method |-> "none", target |-> 0]
    /\ soundEvent' = "volume"
    /\ UNCHANGED <<droneVars, bedVars, startSources, toneContext, padVars, indexVars, managerVars,
                   overlayVars, observerVars, micVars, mapVars, wordVars, haikuVars>>

NextVolume ==
    \/ startDrone
    \/ stopDrone
    \/ DroneFadeEnds
    \/ DroneTeardown
    \/ initTone
    \/ setSoundscapeVolume
    \/ setMasterVolume

SpecVolume == Init /\ [][NextVolume]_vars

----
\* lib/audioVisualization: the AudioVisualizer class.  An instance is started
\* once (pages/Index constructs a new one for every start).

CallbackOutcomes == {"returns", "throws"}

\* analyze(): one run of the acquisition loop.  It returns early without data;
\* otherwise it calls onAmplitudeChange and, after the callback has returned,
\* requests the next animation frame.  A throw of the callback leaves analyze
\* before the request.
analyze(v, outcome) ==
    IF ~v.analyser \/ outcome = "throws"
    THEN [v EXCEPT !.frame = FALSE]
    ELSE [v EXCEPT !.frame = TRUE, !.animationId = TRUE]

\* start() up to its await of getUserMedia
startAwaits(v) == [v EXCEPT !.phase = "awaiting"]

\* start() after getUserMedia has resolved: stream, context, analyser, source
\* and data array are set, analyze() runs once; a throw inside the try block
\* rejects start()
startResumes(v, outcome) ==
    [analyze([v EXCEPT !.stream = TRUE, !.analyser = TRUE], outcome)
        EXCEPT !.phase = IF outcome = "throws" THEN "failed" ELSE "started"]

\* a rejection that leaves a stream behind
startFailsWithStream(v) == [v EXCEPT !.phase = "failed", !.stream = TRUE]

\* start() after getUserMedia has rejected
startFails(v) == [v EXCEPT !.phase = "failed"]

\* stop(): cancels the requested frame if animationId is set, stops the stream's
\* tracks, closes the context, clears every field
stop(v) ==
    [v EXCEPT !.frame = IF v.animationId THEN FALSE ELSE v.frame,
              !.animationId = FALSE, !.stream = FALSE, !.analyser = FALSE,
              !.stopped = TRUE]

\* everything but the visualizers
besideMic == <<indexVars, managerVars, overlayVars, observerVars, soundVars, mapVars,
               wordVars, haikuVars>>

\* A client of the class: any instance, any callback
ClientStart ==
    \E i \in 1..MaxVisualizers :
        /\ visualizers[i].phase = "unused"
        /\ visualizers' = [visualizers EXCEPT ![i] = startAwaits(@)]
        /\ micEvent' = "start"
        /\ micId' = i
    /\ UNCHANGED <<visualizerRef, mounted, lastToggle, besideMic>>

PermissionGranted(outcomes) ==
    \E i \in 1..MaxVisualizers, outcome \in outcomes :
        /\ visualizers[i].phase = "awaiting"
        /\ visualizers' = [visualizers EXCEPT ![i] = startResumes(@, outcome)]
        /\ micEvent' = "callback"
        /\ micId' = i
    /\ UNCHANGED <<visualizerRef, mounted, lastToggle, besideMic>>

PermissionDenied ==
    \E i \in 1..MaxVisualizers :
        /\ visualizers[i].phase = "awaiting"
        /\ visualizers' = [visualizers EXCEPT ![i] = startFails(@)]
        /\ micEvent' = "denied"
        /\ micId' = i
    /\ UNCHANGED <<visualizerRef, mounted, lastToggle, besideMic>>

\* the browser runs a requested animation frame
AnimationFrame(outcomes) ==
    \E i \in 1..MaxVisualizers, outcome \in outcomes :
        /\ visualizers[i].frame
        /\ visualizers' = [visualizers EXCEPT ![i] = analyze(@, outcome)]
        /\ micEvent' = IF visualizers[i].analyser THEN "callback" ELSE "noData"
        /\ micId' = i
    /\ UNCHANGED <<visualizerRef, mounted, lastToggle, besideMic>>

ClientStop ==
    \E i \in 1..MaxVisualizers :
        /\ visualizers' = [visualizers EXCEPT ![i] = stop(@)]
        /\ micEvent' = "stop"
        /\ micId' = i
    /\ UNCHANGED <<visualizerRef, mounted, lastToggle, besideMic>>

GrantedV == PermissionGranted(CallbackOutcomes)
FrameV == AnimationFrame(CallbackOutcomes)

NextVisualizer ==
    \/ ClientStart
    \/ GrantedV
    \/ PermissionDenied
    \/ FrameV
    \/ ClientStop

SpecVisualizer == Init /\ [][NextVisualizer]_vars

----
\* pages/Index: the audio toggle and the unmount cleanup, with start() split at
\* its await.  The page's callback sets four state values and does not throw.

MicAmplitudes == {0, 100}
MicFrequencies == {MinFreq, MaxFreq}

\* what the mic actions leave alone
micQuiet ==
    <<contextState, autoCaptureEnabled, timeSinceLastCapture, sensitivityMode,
      recentPeaks, decayTimers, pollTimer, managerVars, overlayVars, observerVars,
      soundVars, mapVars, wordVars, haikuVars>>

\* the callback given to the AudioVisualizer; state setters of an unmounted
\* component do nothing
visualizerCallback ==
    IF mounted
    THEN \E amplitude \in MicAmplitudes, frequency \in MicFrequencies :
            /\ motionIntensity' = frameMotion(motionIntensity, amplitude)
            /\ audioHue' = mapFrequencyToHue(frequency)
            /\ audioAmplitude' = frameAmplitude(amplitude)
            /\ interactionFrequency' = frameIncrement(interactionFrequency, amplitude)
    ELSE UNCHANGED <<motionIntensity, audioHue, audioAmplitude, interactionFrequency>>

\* toggleAudioVisualization with audio off, up to `await visualizer.start()`
ToggleAudioOn ==
    /\ mounted
    /\ ~audioEnabled
    /\ \E i \in 1..MaxVisualizers :
        /\ visualizers[i].phase = "unused"
        /\ \A j \in 1..(i - 1) : visualizers[j].phase # "unused"
        /\ visualizers' = [visualizers EXCEPT ![i] = startAwaits(@)]
        /\ micId' = i
    /\ micEvent' = "toggleOn"
    /\ lastToggle' = "on"
    /\ UNCHANGED <<visualizerRef, mounted, audioEnabled, motionIntensity, audioHue,
                   audioAmplitude, interactionFrequency, micQuiet>>

\* getUserMedia resolves: start() completes (first analyze included), then
\* visualizerRef.current = visualizer; setAudioEnabled(true)
MicGranted ==
    /\ \E i \in 1..MaxVisualizers :
        /\ visualizers[i].phase = "awaiting"
        /\ visualizers' = [visualizers EXCEPT ![i] = startResumes(@, "returns")]
        /\ visualizerRef' = i
        /\ micId' = i
    /\ visualizerCallback
    /\ audioEnabled' = (mounted \/ audioEnabled)
    /\ micEvent' = "callback"
    /\ UNCHANGED <<mounted, lastToggle, micQuiet>>

\* getUserMedia rejects: the catch block shows a toast
MicDenied ==
    /\ \E i \in 1..MaxVisualizers :
        /\ visualizers[i].phase = "awaiting"
        /\ visualizers' = [visualizers EXCEPT ![i] = startFails(@)]
        /\ micId' = i
    /\ micEvent' = "denied"
    /\ UNCHANGED <<visualizerRef, mounted, lastToggle, audioEnabled, motionIntensity,
                   audioHue, audioAmplitude, interactionFrequency, micQuiet>>

MicFrame ==
    /\ \E i \in 1..MaxVisualizers :
        /\ visualizers[i].frame
        /\ visualizers' = [visualizers EXCEPT ![i] = analyze(@, "returns")]
        /\ micId' = i
        /\ IF visualizers[i].analyser
           THEN /\ visualizerCallback
                /\ micEvent' = "callback"
           ELSE /\ micEvent' = "noData"
                /\ UNCHANGED <<motionIntensity, audioHue, audioAmplitude,
                               interactionFrequency>>
    /\ UNCHANGED <<visualizerRef, mounted, lastToggle, audioEnabled, micQuiet>>

\* toggleAudioVisualization with audio on
ToggleAudioOff ==
    /\ mounted
    /\ audioEnabled
    /\ visualizers' = IF visualizerRef = 0 THEN visualizers
                      ELSE [visualizers EXCEPT ![visualizerRef] = stop(@)]
    /\ visualizerRef' = 0
    /\ audioEnabled' = FALSE
    /\ audioHue' = 0
    /\ audioAmplitude' = 0
    /\ micEvent' = "toggleOff"
    /\ micId' = visualizerRef
    /\ lastToggle' = "off"
    /\ UNCHANGED <<mounted, motionIntensity, interactionFrequency, micQuiet>>

\* the cleanup of the page's unmount effect
Unmount ==
    /\ mounted
    /\ mounted' = FALSE
    /\ visualizers' = IF visualizerRef = 0 THEN visualizers
                      ELSE [visualizers EXCEPT ![visualizerRef] = stop(@)]
    /\ micEvent' = "unmount"
    /\ micId' = visualizerRef
    /\ UNCHANGED <<visualizerRef, lastToggle, audioEnabled, motionIntensity, audioHue,
                   audioAmplitude, interactionFrequency, micQuiet>>

NextMic ==
    \/ ToggleAudioOn
    \/ MicGranted
    \/ MicDenied
    \/ MicFrame
    \/ ToggleAudioOff
    \/ Unmount

SpecMic == Init /\ [][NextMic]_vars

----
\* components/ReactiveOverlay and the audio callback in time (SpecMotion): a
\* step of 50 ms, events between the steps.  A change of motionIntensity
\* re-renders ReactiveOverlay; the decay effect has motionIntensity among its
\* dependencies, so it clears its interval and sets a new one.

MotionStep == MotionDecayInterval \div 2     \* half a tick
MotionCap == 3 * MotionDecayInterval

\* the interval after motionIntensity has been set to next
motionTimerAfter(timer, prev, next) ==
    IF next # prev THEN MotionDecayInterval ELSE timer

MotionUnchanged ==
    UNCHANGED <<contextState, autoCaptureEnabled, timeSinceLastCapture, sensitivityMode,
                recentPeaks, decayTimers, pollTimer, managerVars, sessionAge, sinceEvent,
                sincePoll, sinceFire, scoreLog, frameCount, lastGap, captureCalls,
                soundVars, micVars, mapVars, wordVars, haikuVars>>

\* handleMouseMove
PointerMoveM ==
    /\ \E movement \in Movements :
        motionIntensity' = pointerMotion(renderedMotion, movement)
    /\ renderedMotion' = motionIntensity'
    /\ motionTimer' = motionTimerAfter(motionTimer, motionIntensity, motionIntensity')
    /\ lastEvent' = "move"
    /\ UNCHANGED <<interactionFrequency, audioEnabled, audioHue, audioAmplitude, sinceDecay>>
    /\ MotionUnchanged

\* toggleAudioVisualization, the microphone granted at once
ToggleAudioM ==
    /\ audioEnabled' = ~audioEnabled
    /\ audioHue' = IF audioEnabled THEN 0 ELSE audioHue
    /\ audioAmplitude' = IF audioEnabled THEN 0 ELSE audioAmplitude
    /\ lastEvent' = "toggle"
    /\ UNCHANGED <<interactionFrequency, motionIntensity, overlayVars>>
    /\ MotionUnchanged

\* one analysis frame
AudioFrameM ==
    /\ audioEnabled
    /\ \E amplitude \in FrameAmplitudes, frequency \in FrameFrequencies :
        /\ motionIntensity' = frameMotion(motionIntensity, amplitude)
        /\ audioHue' = mapFrequencyToHue(frequency)
        /\ audioAmplitude' = frameAmplitude(amplitude)
        /\ interactionFrequency' = frameIncrement(interactionFrequency, amplitude)
    /\ renderedMotion' = motionIntensity'
    /\ motionTimer' = motionTimerAfter(motionTimer, motionIntensity, motionIntensity')
    /\ lastEvent' = "frame"
    /\ UNCHANGED <<audioEnabled, sinceDecay>>
    /\ MotionUnchanged

\* the interval's callback
MotionDecayM ==
    /\ Due(motionTimer)
    /\ motionIntensity' = decayedMotion(renderedMotion)
    /\ renderedMotion' = motionIntensity'
    /\ motionTimer' = MotionDecayInterval
    /\ sinceDecay' = 0
    /\ lastEvent' = "motionDecay"
    /\ UNCHANGED <<interactionFrequency, audioEnabled, audioHue, audioAmplitude>>
    /\ MotionUnchanged

AdvanceM ==
    /\ NotOverdue(motionTimer, MotionStep)
    /\ motionTimer' = Later(motionTimer, MotionStep)
    /\ sinceDecay' = Older(sinceDecay, MotionStep, MotionCap)
    /\ lastEvent' = "time"
    /\ UNCHANGED <<interactionFrequency, motionIntensity, audioEnabled, audioHue,
                   audioAmplitude, renderedMotion>>
    /\ MotionUnchanged

NextM ==
    \/ PointerMoveM
    \/ ToggleAudioM
    \/ AudioFrameM
    \/ MotionDecayM
    \/ AdvanceM

SpecMotion == Init /\ [][NextM]_vars

----
\* lib/audioVisualization: the mapping functions and the page's callback on any
\* JavaScript number (SpecMap).  NaN stands for NaN and for undefined, which
\* arithmetic turns into NaN; Math.min, Math.max and Math.pow return NaN when an
\* argument is NaN, and a comparison with NaN is false.

NaN == 0 - MaxLevel

\* mapFrequencyToHue(frequency)
hueOf(frequency) ==
    IF frequency = NaN THEN NaN ELSE mapFrequencyToHue(frequency)
\* mapAmplitudeToIntensity(amplitude)
intensityOf(amplitude) ==
    IF amplitude = NaN THEN NaN ELSE mapAmplitudeToIntensity(amplitude)
\* the setters of the callback
frameMotionOf(prev, amplitude) ==
    IF amplitude = NaN THEN NaN ELSE frameMotion(prev, amplitude)
frameAmplitudeOf(amplitude) ==
    IF amplitude = NaN THEN NaN ELSE frameAmplitude(amplitude)
frameIncrementOf(prev, amplitude) ==
    IF amplitude = NaN THEN prev ELSE frameIncrement(prev, amplitude)

\* arguments: amplitudes 0.00 .. 1.00, frequencies up to the Nyquist frequency
MapAmplitudes == (0 .. Unit) \cup {NaN}
MapFrequencies ==
    {0, MinFreq, MinFreq + 1, 350, 1010, 1504, 1505, 1521, MaxFreq - 1, MaxFreq,
     MaxFreq + 1, 22050, NaN}

InitMap ==
    /\ InitSound
    /\ InitMic
    /\ InitPage
    /\ NoWords
    /\ NoHaiku
    /\ mapAmplitude \in MapAmplitudes
    /\ mapFrequency \in MapFrequencies
    /\ mapName = "none"
    /\ mapOutput = 0

MapUnchanged ==
    UNCHANGED <<contextState, audioEnabled, autoCaptureEnabled, timeSinceLastCapture,
                sensitivityMode, recentPeaks, decayTimers, pollTimer, managerVars,
                overlayVars, observerVars, soundVars, micVars, mapAmplitude, mapFrequency,
                wordVars, haikuVars>>

CallHue ==
    /\ mapName = "none"
    /\ mapName' = "hue"
    /\ mapOutput' = hueOf(mapFrequency)
    /\ UNCHANGED <<interactionFrequency, motionIntensity, audioHue, audioAmplitude>>
    /\ MapUnchanged

CallIntensity ==
    /\ mapName = "none"
    /\ mapName' = "intensity"
    /\ mapOutput' = intensityOf(mapAmplitude)
    /\ UNCHANGED <<interactionFrequency, motionIntensity, audioHue, audioAmplitude>>
    /\ MapUnchanged

\* the callback of pages/Index called with the two arguments
CallCallback ==
    /\ mapName = "none"
    /\ mapName' = "callback"
    /\ motionIntensity' = frameMotionOf(motionIntensity, mapAmplitude)
    /\ audioHue' = hueOf(mapFrequency)
    /\ audioAmplitude' = frameAmplitudeOf(mapAmplitude)
    /\ interactionFrequency' = frameIncrementOf(interactionFrequency, mapAmplitude)
    /\ UNCHANGED mapOutput
    /\ MapUnchanged

NextMap ==
    \/ CallHue
    \/ CallIntensity
    \/ CallCallback

SpecMap == InitMap /\ [][NextMap]_vars

----
\* components/SemanticLayer (SpecWords): the ephemeral words, in steps of
\* 500 ms.  SemanticLayer is mounted while the state is active or immersive.
\* The ids (Date.now() at creation) are taken as distinct.  Opacity, text and
\* position of a word are left out.  A timeout that finds its word gone changes
\* nothing and is dropped with the word.

WordLife == 8000               \* the auto-fade timeout
ClickFade == 1500              \* the timeout of handleWordClick
WordCap == 5                   \* words.length < 5
WordLevel == 2 * Unit          \* interactionFrequency > 2
WordStep == ClickFade \div 3

MaxCreated == 1                \* words created in a run

\* interactionFrequency when the first word can appear
WordFrequencies == {WordLevel, WordLevel + DecayStep}

InitWords ==
    /\ InitSound
    /\ InitMic
    /\ NoMapCall
    /\ NoWords
    /\ NoHaiku
    /\ interactionFrequency \in WordFrequencies
    /\ motionIntensity = 0
    /\ contextState = "active"
    /\ audioEnabled = FALSE
    /\ audioHue = 0
    /\ audioAmplitude = 0
    /\ autoCaptureEnabled = FALSE
    /\ timeSinceLastCapture = NoTimer
    /\ sensitivityMode = "balanced"
    /\ recentPeaks = <<>>
    /\ decayTimers = <<>>
    /\ pollTimer = NoTimer
    /\ timeSinceInteraction = 0
    /\ introComplete = TRUE
    /\ introTimer = NoTimer
    /\ checkTimer = CheckInterval
    /\ renderedMotion = 0
    /\ motionTimer = MotionDecayInterval
    /\ sinceDecay = 0
    /\ lastEvent = "time"
    /\ sessionAge = SessionCap
    /\ sinceEvent = 0
    /\ sincePoll = 0
    /\ sinceFire = NoTimer
    /\ scoreLog = <<>>
    /\ frameCount = 0
    /\ lastGap = NoTimer
    /\ captureCalls = 0

WordsUnchanged ==
    UNCHANGED <<motionIntensity, contextState, audioEnabled, audioHue, audioAmplitude,
                autoCaptureEnabled, timeSinceLastCapture, sensitivityMode, recentPeaks,
                pollTimer, managerVars, overlayVars, observerVars, soundVars, micVars,
                mapVars, haikuVars>>

\* handleInteraction, as onHover or through the window's click listener
InteractW ==
    /\ Len(decayTimers) < MaxDecay
    /\ interactionFrequency' = clickIncrement(interactionFrequency)
    /\ decayTimers' = Append(decayTimers, DecayDelay)

\* the words without the one at position k
WithoutWord(ws, k) == SubSeq(ws, 1, k - 1) \o SubSeq(ws, k + 1, Len(ws))

\* handleMouseMove when the random draw passes: onHover, and a new word unless
\* no free position was found
PointerMoveW ==
    /\ interactionFrequency > WordLevel
    /\ Len(words) < WordCap
    /\ wordsCreated < MaxCreated
    /\ InteractW
    /\ \E placed \in BOOLEAN :
        IF placed
        THEN /\ words' = Append(words, [id |-> wordsCreated + 1, age |-> 0,
                                        clickAge |-> NoTimer])
             /\ wordsCreated' = wordsCreated + 1
             /\ wordEvent' = "create"
        ELSE /\ wordEvent' = "noRoom"
             /\ UNCHANGED <<words, wordsCreated>>
    /\ renderedWords' = Len(words')
    /\ WordsUnchanged

\* a click on a word: handleWordClick, and handleInteraction by the window's
\* click listener; of several clicks on a word the first has the earliest timeout
WordClick ==
    /\ \E k \in 1..Len(words) :
        words' = [words EXCEPT ![k].clickAge = IF @ = NoTimer THEN 0 ELSE @]
    /\ InteractW
    /\ wordEvent' = "click"
    /\ UNCHANGED <<renderedWords, wordsCreated>>
    /\ WordsUnchanged

\* the auto-fade of 4 s in place of 8 s
WordTimeoutEarly ==
    /\ \E k \in 1..Len(words) :
        /\ words[k].age = WordLife \div 2
        /\ words' = WithoutWord(words, k)
    /\ wordEvent' = "remove"
    /\ renderedWords' = Len(words')
    /\ UNCHANGED <<interactionFrequency, decayTimers, wordsCreated>>
    /\ WordsUnchanged

\* the auto-fade timeout of a word
WordTimeout ==
    /\ \E k \in 1..Len(words) :
        /\ words[k].age = WordLife
        /\ words' = WithoutWord(words, k)
    /\ wordEvent' = "remove"
    /\ renderedWords' = Len(words')
    /\ UNCHANGED <<interactionFrequency, decayTimers, wordsCreated>>
    /\ WordsUnchanged

\* the timeout of handleWordClick
ClickTimeout ==
    /\ \E k \in 1..Len(words) :
        /\ words[k].clickAge = ClickFade
        /\ words' = WithoutWord(words, k)
    /\ wordEvent' = "remove"
    /\ renderedWords' = Len(words')
    /\ UNCHANGED <<interactionFrequency, decayTimers, wordsCreated>>
    /\ WordsUnchanged

\* the decay timeout of handleInteraction
DecayW ==
    /\ decayTimers # <<>>
    /\ Due(Head(decayTimers))
    /\ decayTimers' = Tail(decayTimers)
    /\ interactionFrequency' = decayDecrement(interactionFrequency)
    /\ wordEvent' = "decay"
    /\ UNCHANGED <<words, renderedWords, wordsCreated>>
    /\ WordsUnchanged

AdvanceW ==
    /\ \A k \in 1..Len(decayTimers) : NotOverdue(decayTimers[k], WordStep)
    /\ \A k \in 1..Len(words) :
        /\ words[k].age + WordStep <= WordLife
        /\ words[k].clickAge = NoTimer \/ words[k].clickAge + WordStep <= ClickFade
    /\ decayTimers' = [k \in 1..Len(decayTimers) |-> Later(decayTimers[k], WordStep)]
    /\ words' = [k \in 1..Len(words) |->
                    [words[k] EXCEPT !.age = @ + WordStep,
                                     !.clickAge = IF @ = NoTimer THEN @ ELSE @ + WordStep]]
    /\ wordEvent' = "time"
    /\ UNCHANGED <<interactionFrequency, renderedWords, wordsCreated>>
    /\ WordsUnchanged

NextWords ==
    \/ PointerMoveW
    \/ WordClick
    \/ WordTimeout
    \/ ClickTimeout
    \/ DecayW
    \/ AdvanceW

\* timeouts fire when due and time passes
SpecWords == InitWords /\ [][NextWords]_vars /\ WF_vars(NextWords)

----
\* SemanticLayer with its re-render as a step of its own (SpecWordCap): a
\* pointer move is handled by the listener of the last render, whose
\* words.length is renderedWords.  Durations are left out: a pending timeout
\* may fire at any step.

MaxWordsCreated == 6           \* words created in a run of SpecWordCap

\* handleMouseMove when the random draw passes, by the listener of the last render
PointerMoveC ==
    /\ interactionFrequency > WordLevel
    /\ renderedWords < WordCap
    /\ wordsCreated < MaxWordsCreated
    /\ InteractW
    /\ \E placed \in BOOLEAN :
        IF placed
        THEN /\ words' = Append(words, [id |-> wordsCreated + 1, age |-> 0,
                                        clickAge |-> NoTimer])
             /\ wordsCreated' = wordsCreated + 1
             /\ wordEvent' = "create"
        ELSE /\ wordEvent' = "noRoom"
             /\ UNCHANGED <<words, wordsCreated>>
    /\ UNCHANGED renderedWords
    /\ WordsUnchanged

\* SemanticLayer re-renders and its effect registers a new listener
RenderC ==
    /\ renderedWords # Len(words)
    /\ renderedWords' = Len(words)
    /\ wordEvent' = "render"
    /\ UNCHANGED <<interactionFrequency, decayTimers, words, wordsCreated>>
    /\ WordsUnchanged

\* the auto-fade timeout of a word, or the timeout of a click on it
WordRemovedC ==
    /\ \E k \in 1..Len(words) : words' = WithoutWord(words, k)
    /\ wordEvent' = "remove"
    /\ UNCHANGED <<interactionFrequency, decayTimers, renderedWords, wordsCreated>>
    /\ WordsUnchanged

\* the decay timeout of handleInteraction
DecayC ==
    /\ decayTimers # <<>>
    /\ decayTimers' = Tail(decayTimers)
    /\ interactionFrequency' = decayDecrement(interactionFrequency)
    /\ wordEvent' = "decay"
    /\ UNCHANGED <<words, renderedWords, wordsCreated>>
    /\ WordsUnchanged

NextWordCap ==
    \/ PointerMoveC
    \/ RenderC
    \/ WordRemovedC
    \/ DecayC

SpecWordCap == InitWords /\ [][NextWordCap]_vars

----
\* lib/audio (sound utilities): the reflection pad. The teardown timeouts of
\* stopReflectionPad all have the same delay, so they fire in the order they
\* were set and only their number is kept.

\* startReflectionPad
startReflectionPad ==
    /\ lastPadCall' = "start"
    /\ soundEvent' = "padStart"
    /\ IF reflectionPad
       THEN UNCHANGED <<reflectionPad, toneContext>>
       ELSE /\ toneContext' = TRUE          \* getAudioContext()
            /\ reflectionPad' = TRUE
    /\ UNCHANGED <<padStops, droneVars, bedVars, startSources, volumeCall, indexVars,
                   managerVars, overlayVars, observerVars, micVars, mapVars, wordVars,
                   haikuVars>>

\* stopReflectionPad: the fade of the pad's gains and the timeout set with it
stopReflectionPad ==
    /\ padStops < MaxStops
    /\ lastPadCall' = "stop"
    /\ soundEvent' = "padStop"
    /\ padStops' = IF reflectionPad THEN padStops + 1 ELSE padStops
    /\ UNCHANGED <<reflectionPad, toneContext, droneVars, bedVars, startSources,
                   volumeCall, indexVars, managerVars, overlayVars, observerVars, micVars,
                   mapVars, wordVars, haikuVars>>

\* the timeout of stopReflectionPad, 1600 ms after the call
PadTeardown ==
    /\ padStops > 0
    /\ padStops' = padStops - 1
    /\ reflectionPad' = FALSE
    /\ soundEvent' = "padTeardown"
    /\ UNCHANGED <<lastPadCall, toneContext, droneVars, bedVars, startSources, volumeCall,
                   indexVars, managerVars, overlayVars, observerVars, micVars, mapVars,
                   wordVars, haikuVars>>

\* start and stop calls of the drone engine and of the pad in any order, with
\* the fades ending and the timeouts firing at any later time
NextStartStop ==
    \/ startDrone
    \/ stopDrone
    \/ DroneFadeEnds
    \/ DroneTeardown
    \/ startReflectionPad
    \/ stopReflectionPad
    \/ PadTeardown

SpecStartStop == Init /\ [][NextStartStop]_vars

----
\* supabase/functions/generate-haiku and the HaikuGenerator panel that calls it

RateLimitMessage == "Rate limit exceeded. Please try again later."
CreditsMessage == "AI credits depleted. Please add credits."
GenerationMessage == "AI generation failed"
ConfigurationMessage == "LOVABLE_API_KEY is not configured"
FailedMessage == "Failed to generate haiku. Please try again."
FallbackHaiku == "Silent whispers fall"

\* generations asked for in one run
MaxGenerations == 3

\* what the gateway can answer: its status and the content of the first choice
\* ("" for a body without one)
Upstream ==
    {[status |-> 200, content |-> "poem"], [status |-> 200, content |-> ""],
     [status |-> 429, content |-> ""], [status |-> 402, content |-> ""],
     [status |-> 401, content |-> ""], [status |-> 500, content |-> ""]}

\* Response.ok
ok(status) == 200 <= status /\ status <= 299

\* the catch handler: status 500 with the message of the error thrown
caught(message) == [status |-> 500, error |-> message, haiku |-> ""]

\* the handler without its check of the secret
servePostUnchecked(key, up) ==
    IF ~ok(up.status)
    THEN IF up.status = 429 THEN [status |-> 429, error |-> RateLimitMessage, haiku |-> ""]
         ELSE IF up.status = 402
              THEN [status |-> 402, error |-> CreditsMessage, haiku |-> ""]
              ELSE caught(GenerationMessage)
    ELSE [status |-> 200, error |-> "",
          haiku |-> IF up.content = "" THEN FallbackHaiku ELSE up.content]

\* the serve handler for a POST: the Response it returns when the secret is set
\* or not (key) and the gateway, if it is called, answers up
servePost(key, up) ==
    IF ~key
    THEN caught(ConfigurationMessage)
    ELSE IF ~ok(up.status)
         THEN IF up.status = 429
              THEN [status |-> 429, error |-> RateLimitMessage, haiku |-> ""]
              ELSE IF up.status = 402
                   THEN [status |-> 402, error |-> CreditsMessage, haiku |-> ""]
                   ELSE caught(GenerationMessage)
         ELSE [status |-> 200, error |-> "",
               haiku |-> IF up.content = "" THEN FallbackHaiku ELSE up.content]

\* whether the handler reaches its fetch
callsUpstream(key) == key

\* supabase.functions.invoke as generateHaiku destructures it: the functions
\* client resolves a Response that is not ok with error set and data null, and
\* an ok one with its parsed body as data
invoke(r) ==
    IF ok(r.status)
    THEN [error |-> FALSE, data |-> [error |-> r.error, haiku |-> r.haiku]]
    ELSE [error |-> TRUE, data |-> [error |-> "", haiku |-> ""]]

\* the description generateHaiku puts in a toast for the result of invoke
\* ("" when it shows none)
toastFor(result) ==
    IF result.error THEN FailedMessage
    ELSE result.data.error

InitHaiku ==
    /\ InitSound
    /\ InitMic
    /\ NoMapCall
    /\ NoWords
    /\ InitPage
    /\ LOVABLE_API_KEY \in BOOLEAN
    /\ request = "none"
    /\ response = NoResponse
    /\ haiku = ""
    /\ isLoading = FALSE
    /\ toast = ""
    /\ upstreamCalls = 0
    /\ upstreamStatus = 0
    /\ generations = 0

HaikuUnchanged ==
    UNCHANGED <<indexVars, managerVars, overlayVars, observerVars, soundVars, micVars,
                mapVars, wordVars>>

\* the Generate button (disabled while loading): generateHaiku up to its await;
\* the browser sends the preflight first
GenerateClick ==
    /\ ~isLoading
    /\ generations < MaxGenerations
    /\ isLoading' = TRUE
    /\ request' = "OPTIONS"
    /\ generations' = generations + 1
    /\ upstreamStatus' = 0
    /\ UNCHANGED <<LOVABLE_API_KEY, response, haiku, toast, upstreamCalls>>
    /\ HaikuUnchanged

\* the serve handler for the preflight: an empty Response; the browser then
\* sends the POST
ServeOptions ==
    /\ request = "OPTIONS"
    /\ request' = "POST"
    /\ UNCHANGED <<LOVABLE_API_KEY, response, haiku, isLoading, toast, upstreamCalls,
                   upstreamStatus, generations>>
    /\ HaikuUnchanged

\* the serve handler for the POST, its fetch of the gateway included
ServePost ==
    /\ request = "POST"
    /\ \E up \in Upstream :
          /\ response' = servePost(LOVABLE_API_KEY, up)
          /\ upstreamStatus' = IF callsUpstream(LOVABLE_API_KEY) THEN up.status ELSE 0
    /\ upstreamCalls' = upstreamCalls + (IF callsUpstream(LOVABLE_API_KEY) THEN 1 ELSE 0)
    /\ request' = "none"
    /\ UNCHANGED <<LOVABLE_API_KEY, haiku, isLoading, toast, generations>>
    /\ HaikuUnchanged

\* generateHaiku after its await: throw on error, toast on data.error,
\* setHaiku otherwise, and setIsLoading(false) in every case
GenerateResumes ==
    /\ response # NoResponse
    /\ LET result == invoke(response)
       IN  /\ toast' = IF toastFor(result) # "" THEN toastFor(result) ELSE toast
           /\ haiku' = IF toastFor(result) # "" THEN haiku ELSE result.data.haiku
    /\ isLoading' = FALSE
    /\ response' = NoResponse
    /\ UNCHANGED <<LOVABLE_API_KEY, request, upstreamCalls, upstreamStatus, generations>>
    /\ HaikuUnchanged

NextHaiku ==
    \/ GenerateClick
    \/ ServeOptions
    \/ ServePost
    \/ GenerateResumes

SpecHaiku == InitHaiku /\ [][NextHaiku]_vars

----
\* Claims about the experience state machine (SpecSM)

CheckStateStep == lastEvent' = "checkState"

\* C1: in reflection, more than 60 s after the last nonzero interaction, no
\* periodic evaluation moves the state to active or immersive (the state stays
\* reflection), also when interactionFrequency is still positive.
C1_ReflectionStays ==
    [][(CheckStateStep /\ contextState = "reflection"
            /\ timeSinceInteraction > IdleThreshold)
        => contextState' = "reflection"]_vars

\* C4: with interactionFrequency at 0 the state leaves intro only at a periodic
\* evaluation after the 3 s intro timer has fired, and then for active; and
\* unless interactionFrequency becomes positive, active is eventually reached.
C4_IntroToActive ==
    /\ [][(contextState = "intro" /\ contextState' # "intro" /\ interactionFrequency = 0)
          => /\ introComplete
             /\ sessionAge >= IntroDelay
             /\ CheckStateStep
             /\ contextState' = "active"]_vars
    /\ <>(contextState = "active" \/ interactionFrequency > 0)

C4_Witness ==
    /\ contextState = "active"
    /\ lastEvent = "checkState"
    /\ interactionFrequency = 0
    /\ decayTimers = <<>>
    /\ introComplete
    /\ sessionAge = IntroDelay + CheckInterval
    /\ timeSinceInteraction = IntroDelay + CheckInterval

\* C5: at a rule evaluation in intro, active or reflection with
\* interactionFrequency > 5 the state becomes immersive; at one in a non-active
\* state with interactionFrequency in (0,5] it becomes active.
C5_FrequencyRules ==
    [][CheckStateStep =>
        /\ (contextState \in {"intro", "active", "reflection"}
                /\ interactionFrequency > ImmersiveLevel
            => contextState' = "immersive")
        /\ (contextState # "active" /\ interactionFrequency > 0
                /\ interactionFrequency <= ImmersiveLevel
            => contextState' = "active")]_vars

C5_Witness ==
    /\ contextState = "immersive"
    /\ lastEvent = "checkState"
    /\ interactionFrequency > ImmersiveLevel
    /\ sinceEvent = CheckInterval
    /\ timeSinceInteraction = CheckInterval

\* C6: the rules are evaluated on every change of interactionFrequency: when
\* interactionFrequency becomes positive in intro, the state leaves intro in
\* that same step, without waiting for a tick.
C6_EvaluatedOnChange ==
    [][(contextState = "intro" /\ interactionFrequency = 0 /\ interactionFrequency' > 0)
        => contextState' # "intro"]_vars

C8_DefinedEdges ==
    [][/\ (contextState # "intro" /\ contextState' = "intro"
            => contextState = "reflection" /\ lastEvent' = "reload")
       /\ (contextState = "intro" => contextState' # "reflection")]_vars

C8_Witness ==
    /\ lastEvent = "reload"
    /\ contextState = "intro"
    /\ timeSinceInteraction = 0
    /\ introTimer = IntroDelay

----
\* Claims about the interaction tracker (SpecTracker)

\* C2: in every reachable state interactionFrequency and motionIntensity lie in
\* [0,10], whatever the order and rate of clicks, hovers, audio frames, pointer
\* moves and decay timers.
C2_LevelsInRange ==
    /\ interactionFrequency >= 0 /\ interactionFrequency <= MaxLevel
    /\ motionIntensity >= 0 /\ motionIntensity <= MaxLevel

\* both values at the cap when another click arrives with decays pending
C2_Witness ==
    /\ interactionFrequency = MaxLevel
    /\ motionIntensity = MaxLevel
    /\ lastEvent = "click"
    /\ Len(decayTimers) = MaxDecay

----
\* Claims about the peak detector (SpecPeak, SpecWindow)

\* a poll that fired a capture
CaptureStep == Len(scoreLog') = Len(scoreLog) + 1 /\ sinceFire' = 0

\* C3: a capture is fired only if no capture was fired before, or the previous
\* one was fired more than the cooldown of the preset now in effect ago.
C3_CooldownBetweenCaptures ==
    [][CaptureStep =>
        (sinceFire = NoTimer \/ sinceFire > presetCooldown(sensitivityMode))]_vars

\* a second capture, one poll after the explosive cooldown had passed
C3_Witness ==
    /\ sinceFire = 0
    /\ lastGap = presetCooldown("explosive") + PollInterval
    /\ sensitivityMode = "explosive"

\* C9: while auto-capture and audio are enabled, detectPeak runs every 500 ms:
\* never more than 500 ms pass without a poll since the last poll or since the
\* buttons last set the effect up.
C9_PollEveryInterval ==
    (autoCaptureEnabled /\ audioEnabled) => sincePoll <= PollInterval

\* the last n elements of a sequence
LastN(sq, n) == SubSeq(sq, Len(sq) - n + 1, Len(sq))

\* C10: the window holds at most 50 samples, and they are the most recent
\* min(n,50) scores in arrival order.
C10_WindowIsRecentScores ==
    /\ Len(recentPeaks) <= WindowCapacity
    /\ recentPeaks = LastN(scoreLog, Min(Len(scoreLog), WindowCapacity))

\* past the capacity, with the oldest sample evicted and two different scores kept
C10_Witness ==
    /\ Len(scoreLog) = WindowCapacity + 1
    /\ Len(recentPeaks) = WindowCapacity
    /\ scoreLog[1] # scoreLog[2]
    /\ recentPeaks[1] = scoreLog[2]
    /\ recentPeaks[1] # recentPeaks[WindowCapacity]

\* a call of detectPeak
PollStep == Len(scoreLog') = Len(scoreLog) + 1

\* the three gates of the claim on the state a poll reads, the window being
\* the one the poll leaves (the sample just appended included); the threshold
\* test is multiplied through by the length of the window
C11_ScoreGate ==
    LET score == compositeScore(audioAmplitude, motionIntensity, interactionFrequency)
    IN score * Len(recentPeaks') > scaledThreshold(recentPeaks', sensitivityMode)

C11_CooldownGate ==
    \/ timeSinceLastCapture = NoTimer
    \/ timeSinceLastCapture > presetCooldown(sensitivityMode)

C11_SignificanceGate ==
    \/ audioAmplitude > significanceThreshold(sensitivityMode)
    \/ /\ motionIntensity > MaxLevel - 5 * significanceThreshold(sensitivityMode)
       /\ interactionFrequency > MaxLevel - 5 * significanceThreshold(sensitivityMode)

\* C11: a poll records the capture time and calls captureScreenshot only if
\* the score gate, the cooldown gate and the significance gate all hold on
\* that poll, and when all three hold it does so exactly once.
C11_CaptureIffGates ==
    [][PollStep =>
        LET gates == C11_ScoreGate /\ C11_CooldownGate /\ C11_SignificanceGate
        IN /\ captureCalls' = IF gates THEN 1 ELSE 0
           /\ (timeSinceLastCapture' = 0) <=> gates]_vars

\* a capture decided by the motion/interaction half of the significance gate,
\* the cooldown having run since an earlier capture
C11_Witness ==
    /\ captureCalls = 1
    /\ timeSinceLastCapture = 0
    /\ lastGap # NoTimer
    /\ audioAmplitude <= significanceThreshold(sensitivityMode)
    /\ motionIntensity > MaxLevel - 5 * significanceThreshold(sensitivityMode)

\* C12: the composite score a poll appends to the window equals the sound
\* engine's combined intensity of the same amplitude, motion and interaction
\* (both brought to the factor 100).
C12_SameCompositeScore ==
    [][PollStep =>
        10 * scoreLog'[Len(scoreLog')]
            = combinedIntensity(audioAmplitude, motionIntensity, interactionFrequency)]_vars

\* clamp(x, lo, hi)
Clamp(x, lo, hi) == IF x < lo THEN lo ELSE IF x > hi THEN hi ELSE x

\* C13: on every poll the dynamic threshold equals
\* clamp(mean(window) + 0.1, presetThreshold - 0.1, presetThreshold + 0.1), the
\* window including the sample just appended, and so lies within 0.1 of the
\* preset's base threshold (all terms multiplied by the length of the window).
C13_ThresholdIsClampedMean ==
    [][PollStep =>
        LET n == Len(recentPeaks')
            base == Weighted(presetThreshold(sensitivityMode))
            band == Weighted(ThresholdBand)
            dynamic == scaledThreshold(recentPeaks', sensitivityMode)
        IN /\ recentPeaks'[n] = scoreLog'[Len(scoreLog')]
           /\ dynamic = Clamp(SumOf(recentPeaks') + band * n,
                              (base - band) * n, (base + band) * n)
           /\ dynamic >= (base - band) * n
           /\ dynamic <= (base + band) * n]_vars

\* a poll has left a window of two samples whose mean is above the preset's
\* base threshold, so that the upper bound of the clamp decides
C13_Witness ==
    /\ sincePoll = 0
    /\ Len(recentPeaks) = 2
    /\ SumOf(recentPeaks) > Weighted(presetThreshold(sensitivityMode)) * Len(recentPeaks)
    /\ sensitivityMode = "subtle"

\* the composite score of the current control values is exactly the base
\* threshold of the current preset, and so is every sample of the window
ConstantAtThreshold ==
    LET score == compositeScore(audioAmplitude, motionIntensity, interactionFrequency)
    IN /\ score = Weighted(presetThreshold(sensitivityMode))
       /\ \A k \in 1..Len(recentPeaks) : recentPeaks[k] = score

\* C14: with the window empty and the composite score exactly at the preset's
\* base threshold, the first poll (window of a single sample) fires no capture;
\* nor does a later poll while the score and the window stay at that value.
C14_NoCaptureAtThreshold ==
    [][(PollStep /\ ConstantAtThreshold)
        => /\ captureCalls' = 0
           /\ timeSinceLastCapture' = timeSinceLastCapture
           /\ (recentPeaks = <<>> => Len(recentPeaks') = 1)]_vars

\* after the first poll on an empty window with the score at the threshold:
\* no capture, although the cooldown and the significance gate were open
C14_Witness ==
    /\ recentPeaks = <<Weighted(presetThreshold(sensitivityMode))>>
    /\ scoreLog = recentPeaks
    /\ sincePoll = 0
    /\ captureCalls = 0
    /\ timeSinceLastCapture = NoTimer
    /\ audioAmplitude > significanceThreshold(sensitivityMode)

----
\* Claims about the sound engines (SpecSound)

\* C15: while the fade of a stop() has not completed, a further stop() is a
\* no-op: one teardown timeout at most is pending, in either engine.
C15_OneTeardownPending ==
    /\ (droneStops # <<>> /\ droneStops[1].phase = "fading") => Len(droneStops) = 1
    /\ (bedStops # <<>> /\ bedStops[1].phase = "fading") => Len(bedStops) = 1

\* C16: start() calls without a stop in between leave exactly one set of
\* layers: the drone engine holds 6 layers, the sub-bass and the noise source
\* while playing and never more, and the start() calls of the sample-bed engine
\* have created one source at most since the last teardown.
C16_OneSetOfLayers ==
    /\ droneLayers \in {0, DroneLayerCount}
    /\ droneIsPlaying => (droneLayers = DroneLayerCount /\ subBass /\ noiseNode)
    /\ startSources <= 1

\* C17: a crossfade is started only for a target other than the active bed,
\* and not while the ramp of an earlier crossfade is still in progress.
C17_NoCrossfadeDuringFade ==
    [][soundEvent' = "crossfade"
        => /\ currentTrackIndex' # currentTrackIndex
           /\ ~Fading(crossfades)]_vars

----
\* Claims about the microphone visualizer (SpecMic, SpecVisualizer)

Released(v) == ~v.stream /\ ~v.analyser /\ ~v.animationId /\ ~v.frame

\* C18: once the page is unmounted, or audio has been toggled off and is off,
\* no visualizer has a frame of its acquisition loop requested and none holds
\* an open microphone stream, whenever the unmount or the toggle happened
\* (also while a start() was awaiting the microphone permission).
C18_NothingRunsAfterShutdown ==
    (~mounted \/ (~audioEnabled /\ lastToggle = "off"))
        => \A i \in 1..MaxVisualizers : ~visualizers[i].stream /\ ~visualizers[i].frame

StopStep(i) == micEvent' = "stop" /\ micId' = i
CallbackStep(i) == micEvent' = "callback" /\ micId' = i

\* C19: stop() leaves the instance released (tracks stopped, context closed,
\* frame cancelled, fields null); a stop() of a released instance (a second
\* stop, or a stop without start) changes nothing but the fact that stop was
\* called; and the callback of an instance is not invoked once a stop() of it
\* has returned.
C19_StopIsFinal ==
    [][\A i \in 1..MaxVisualizers :
        /\ StopStep(i) => Released(visualizers'[i])
        /\ (StopStep(i) /\ Released(visualizers[i]))
            => visualizers'[i] = [visualizers[i] EXCEPT !.stopped = TRUE]
        /\ CallbackStep(i) => ~visualizers[i].stopped]_vars

\* C20: every run of analyze that invokes the callback leaves the next frame
\* requested, whether the callback returns or throws.
C20_NextFrameAlwaysRequested ==
    [][\A i \in 1..MaxVisualizers : CallbackStep(i) => visualizers'[i].frame]_vars

----
\* Claims about the interaction tracker (SpecTracker)

\* C21: interactionFrequency is a leaky bucket: every step that raises it
\* schedules a decay step, and the value does not rest above 0, i.e. whenever
\* no decay step is pending (nothing is left that could lower it) it is 0.
C21_LeakyBucket ==
    /\ [](decayTimers = <<>> => interactionFrequency = 0)
    /\ [][interactionFrequency' > interactionFrequency
            => Len(decayTimers') = Len(decayTimers) + 1]_vars

\* C22: while motionIntensity is above 0 the decay runs on every 100 ms tick:
\* never more than 100 ms pass without a run of the decay callback, however
\* often pointer moves and audio frames raise the value in between.
C22_DecayEveryTick ==
    motionIntensity > 0 => sinceDecay <= MotionDecayInterval

\* C23: in every reachable state the stored hue lies in [0, 360) and the stored
\* amplitude in [0, 1]: with audio on, after frames of any frequency and
\* amplitude, and after audio has been turned off.
C23_HueAndAmplitudeInRange ==
    /\ 0 <= audioHue /\ audioHue < 360 * Unit
    /\ 0 <= audioAmplitude /\ audioAmplitude <= Unit

----
\* Claims about the mapping functions (SpecMap)

\* the hue the mapping is specified to give: linear on the clamped frequency,
\* from 270 degrees up by 120 degrees, taken modulo 360
wrappedHue(frequency) == mapFrequencyToHue(frequency) % (360 * Unit)

\* C24: for every frequency mapFrequencyToHue returns a hue in [0, 360): 270
\* at or below 20 Hz, linear on [20, 2000] Hz with the values past 360 wrapped
\* into [0, 30), and 30 at 2000 Hz and above.
C24_HueWraps ==
    (mapName = "hue" /\ mapFrequency # NaN)
        => /\ 0 <= mapOutput /\ mapOutput < 360 * Unit
           /\ mapOutput = wrappedHue(mapFrequency)
           /\ mapFrequency <= MinFreq => mapOutput = 270 * Unit
           /\ mapFrequency >= MaxFreq => mapOutput = 30 * Unit

\* NaN and undefined taken as 0
Zeroed(x) == IF x = NaN THEN 0 ELSE x

\* C25: the mapping functions treat an undefined or NaN argument as 0 (hue 270,
\* intensity 0), and the callback stores what it would store for 0 in place of
\* an undefined or NaN amplitude or frequency: no NaN reaches the stored
\* control values.
C25_NaNIsZero ==
    /\ mapName = "hue" => mapOutput = hueOf(Zeroed(mapFrequency))
    /\ mapName = "intensity" => mapOutput = intensityOf(Zeroed(mapAmplitude))
    /\ mapName = "callback"
        => /\ motionIntensity = frameMotion(0, Zeroed(mapAmplitude))
           /\ audioHue = mapFrequencyToHue(Zeroed(mapFrequency))
           /\ audioAmplitude = frameAmplitude(Zeroed(mapAmplitude))
           /\ interactionFrequency = frameIncrement(0, Zeroed(mapAmplitude))

\* C26: for every amplitude in [0, 1], mapAmplitudeToIntensity gives
\* min(10, amplitude^0.7 * 10), which lies in [0, 10] and is not below the
\* value for any smaller amplitude.
C26_IntensityMonotone ==
    (mapName = "intensity" /\ mapAmplitude # NaN)
        => /\ mapOutput = Min(MaxLevel, PowerTable[mapAmplitude + 1])
           /\ 0 <= mapOutput /\ mapOutput <= MaxLevel
           /\ \A smaller \in 0 .. mapAmplitude :
                 mapAmplitudeToIntensity(smaller) <= mapOutput

C26_Witness ==
    /\ mapName = "intensity"
    /\ mapAmplitude = Unit \div 2
    /\ mapOutput > mapAmplitudeToIntensity(0)
    /\ mapOutput < mapAmplitudeToIntensity(Unit)

----
\* Claims about the microphone start (SpecMic)

DeniedStep(i) == micEvent' = "denied" /\ micId' = i

----
\* Claims about the volume setters (SpecVolume)

VolumeStep == soundEvent' = "volume"

\* C28: a volume setter makes the master gain approach clamp(v, 0, 1) by a
\* target-based ramp, never by an immediate set of the value, whichever setter
\* is called; before the module's audio context exists the call does nothing.
C28_VolumeRamps ==
    [][VolumeStep
        => /\ volumeCall'.method \in {"none", "setTargetAtTime"}
           /\ volumeCall'.method = "setTargetAtTime"
                => volumeCall'.target = Clamp(volumeCall'.volume, 0, Unit)
           /\ (volumeCall'.setter = "setSoundscapeVolume" /\ ~droneContext)
                => volumeCall'.method = "none"
           /\ (volumeCall'.setter = "setMasterVolume" /\ ~toneContext)
                => volumeCall'.method = "none"
           /\ (volumeCall'.setter = "setSoundscapeVolume" /\ droneContext)
                => volumeCall'.method # "none"
           /\ (volumeCall'.setter = "setMasterVolume" /\ toneContext)
                => volumeCall'.method # "none"]_vars

----
\* Claims about the sample-bed engine (SpecBed)

\* C29: when only some beds load, the loaded ones are usable: a start that
\* waited for the load plays the first loaded bed, a crossfade of update goes
\* to a loaded bed and plays it, and no bed without a buffer ever has a source
\* or is the active bed of the playing engine.
C29_OnlyLoadedBeds ==
    /\ [](/\ trackSources \subseteq trackBuffers
          /\ bedIsPlaying => currentTrackIndex \in trackBuffers)
    /\ [][(soundEvent' = "bedLoaded" /\ startsAwaiting > 0 /\ trackBuffers' # {})
            => /\ bedIsPlaying'
               /\ currentTrackIndex' \in trackBuffers'
               /\ \A i \in trackBuffers' : currentTrackIndex' <= i
               /\ currentTrackIndex' \in trackSources']_vars
    /\ [][soundEvent' = "crossfade"
            => /\ currentTrackIndex' \in trackBuffers
               /\ currentTrackIndex' \in trackSources']_vars

\* two of the four beds failed to load, the engine plays and has crossfaded
C29_Witness ==
    /\ trackBuffers = {1, 3}
    /\ bedIsPlaying
    /\ soundEvent = "crossfade"
    /\ currentTrackIndex = 3
    /\ 3 \in trackSources

----
\* Claims about the ephemeral words (SpecWords)

----
\* Claims about the haiku function and its panel (SpecHaiku)

\* C31: when the gateway answers 429 the user is shown the rate-limit message,
\* when it answers 402 the credits message (two distinct messages), and for any
\* other status that is not a success a generic failure message.
C31_DistinctErrorMessages ==
    (~isLoading /\ upstreamStatus # 0 /\ ~ok(upstreamStatus))
        => /\ upstreamStatus = 429 => toast = RateLimitMessage
           /\ upstreamStatus = 402 => toast = CreditsMessage
           /\ upstreamStatus \notin {429, 402} => toast \in {GenerationMessage, FailedMessage}

\* C32: when the secret LOVABLE_API_KEY is absent, the function answers with an
\* error that names the missing configuration, makes no call to the gateway and
\* returns no haiku, the fallback haiku included.
C32_MissingSecretFailsFast ==
    ~LOVABLE_API_KEY
        => /\ upstreamCalls = 0
           /\ haiku = ""
           /\ response # NoResponse
                => /\ response.error = ConfigurationMessage
                   /\ response.haiku = ""
                   /\ ~ok(response.status)

C32_Witness ==
    /\ ~LOVABLE_API_KEY
    /\ response # NoResponse
    /\ generations > 1

----
\* Claims about start and stop of the sound engines (SpecStartStop)

\* C33: for any sequence of start and stop calls, once no teardown timeout is
\* pending the drone engine is playing exactly if its last call was start, and
\* the reflection pad exists exactly if its last call was start: no timeout of
\* an earlier stop destroys what a later start created, and no start made
\* during a fade-out is lost.
C33_LastCallDecides ==
    /\ (droneStops = <<>> /\ lastDroneCall # "none")
            => (droneIsPlaying <=> lastDroneCall = "start")
    /\ (padStops = 0 /\ lastPadCall # "none")
            => (reflectionPad <=> lastPadCall = "start")

----
\* Claims about the microphone toggle (SpecMic), continued

\* C34: at any time at most one visualizer holds an open microphone stream and
\* at most one has a frame of its acquisition loop requested, and a visualizer
\* whose loop runs is the one visualizerRef points to, also when the toggle is
\* pressed again while a start() is pending.
C34_OneLoopOneStream ==
    /\ Cardinality({i \in 1..MaxVisualizers : visualizers[i].stream}) <= 1
    /\ Cardinality({i \in 1..MaxVisualizers : visualizers[i].frame}) <= 1
    /\ \A i \in 1..MaxVisualizers : visualizers[i].frame => visualizerRef = i

----
\* Claims about the sample-bed engine (SpecBed), continued

\* C35: while the sample-bed engine is playing, the active bed
\* (currentTrackIndex) has a running source: the stop timeout set when a bed
\* was faded out never stops a source started later for the same bed.
C35_ActiveBedHasSource ==
    (bedIsPlaying /\ bedContext) => currentTrackIndex \in trackSources

----
\* Claims about the interaction tracker (SpecTracker), continued

\* C36: no update of motionIntensity is lost: a pointer move adds its movement
\* to the value motionIntensity has when it is handled, and a decay tick
\* subtracts its step from that value, so increments applied since the last
\* render (by an audio frame or an earlier pointer move) are kept.
C36_NoLostMotionUpdate ==
    /\ [][lastEvent' = "move"
            => \E movement \in Movements :
                    motionIntensity' = pointerMotion(motionIntensity, movement)]_vars
    /\ [][lastEvent' = "motionDecay"
            => motionIntensity' = decayedMotion(motionIntensity)]_vars

----
\* Claims about the capture decision (SpecGate), continued

\* the score of the poll just made and whether the window it left holds that
\* score in every sample
PolledScore == scoreLog'[Len(scoreLog')]
ConstantWindow == \A k \in 1..Len(recentPeaks') : recentPeaks'[k] = PolledScore

\* C37: every capture is made at a composite score strictly above
\* presetThreshold - 0.1, and when every sample of the window is that same
\* score a capture is made only at a score above presetThreshold + 0.1.
C37_CaptureAboveFloor ==
    [][(PollStep /\ captureCalls' = 1)
        => /\ PolledScore > Weighted(presetThreshold(sensitivityMode))
                                - Weighted(ThresholdBand)
           /\ ConstantWindow
                => PolledScore > Weighted(presetThreshold(sensitivityMode))
                                    + Weighted(ThresholdBand)]_vars

\* a capture at a score below the preset's base threshold, the mean of the
\* window being low
C37_Witness ==
    /\ captureCalls = 1
    /\ Len(recentPeaks) >= 2
    /\ recentPeaks[Len(recentPeaks)] < Weighted(presetThreshold(sensitivityMode))
    /\ recentPeaks[Len(recentPeaks)] = scoreLog[Len(scoreLog)]

----
\* Claims about the experience state machine (SpecSM), continued

\* interactionFrequency changes and the new value is positive
ChangesToPositive ==
    interactionFrequency' # interactionFrequency /\ interactionFrequency' > 0

----
\* Claims about the ephemeral words (SpecWordCap)

\* C39: the set of active words never holds more than 5 words, also when
\* several pointer moves are handled before SemanticLayer has re-rendered with
\* the new number of words.
C39_AtMostFiveWords == Len(words) <= WordCap

----
\* Claims about the switches of the detector (SpecSwitch)

====
